---- MODULE Spec2Model ----
(***************************************************************************)
(* A model of the discord-bot request-orchestration layer                  *)
(* (src/src/main.rs, src/src/db.rs): the Battle.net credential cache, the  *)
(* SQLite-backed conversation store, the conversational turn (ask_llama),  *)
(* the !levelcheck fan-out and the command handlers of Handler::message.   *)
(*                                                                         *)
(* Every async function is cut at its await points: one action is the      *)
(* synchronous code between two awaits.  Time is counted in whole seconds  *)
(* and serves both Instant::now() and SQLite's unixepoch().                *)
(***************************************************************************)
EXTENDS Integers, Sequences, FiniteSets, TLC

\* ------------------------------------------------------------------ bounds
NumCallers == 2
MaxCalls == 3
MaxTime == 1
MaxStores == 2
NumTasks == 2
MaxChatEvents == 2
MaxReports == 1

\* --------------------------------------------------------------- constants
SafetyMargin == 60
HISTORY_LIMIT == 10

\* Option<T>: None is the empty sequence, Some(x) the one-element sequence.
None == <<>>
Some(x) == <<x>>
IsSome(o) == o # <<>>
Unwrap(o) == o[1]

VARIABLES
    now,            \* the clock, in seconds
    battlenet_auth, \* Handler.battlenet_auth is Some (credentials configured)
    auth,           \* BattleNetAuth: [token, expires_at], both Option
    authLock,       \* holder of the Mutex<BattleNetAuth>, Option<caller>
    cpc,            \* caller -> position inside get_battlenet_token
    cret,           \* caller -> result of its last get_battlenet_token call
    cstart,         \* caller -> what held when its call started (observer)
    ops,            \* bounded operations started so far (bounds the exploration)
    messages,       \* table messages: rows [id, channel_id, role, content, timestamp]
    next_id,        \* the AUTOINCREMENT sequence of messages.id
    log,            \* key -> the (role, content) pairs stored since its last clear (observer)
    dbRet,          \* the last get_recent_messages call and its result (observer)
    llama_api_url,  \* Handler.llama_api_url is Some (LLAMA_API_URL configured)
    config,         \* table config: key -> Option<value>
    dbLock,         \* holder of the Mutex<Connection> across an await, Option<task>
    pc,             \* task -> the await point its handler is at
    ev,             \* task -> the event (msg) it handles
    turn,           \* task -> locals of its conversational turn
    tracked,        \* table tracked_characters: rows [name, added_by]
    fres,           \* caller -> locals of its fetch_wow_character call
    rep,            \* task -> locals of its !levelcheck report
    asm,            \* the last prompt assembled from the store as it stands (observer)
    accepted,       \* the value of the last !cap that was saved, Option (observer)
    written         \* config key -> the value of the last set_config that saved it, Option (observer)

authVars == <<battlenet_auth, auth, authLock, cpc, cret, cstart>>
storeVars == <<messages, next_id, log, dbRet>>
cfgVars == <<llama_api_url, config, dbLock, written>>
taskVars == <<pc, ev, turn>>
reportVars == <<tracked, fres, rep>>
vars == <<now, ops, authVars, storeVars, cfgVars, taskVars, reportVars, asm, accepted>>

Callers == 1..NumCallers
Tokens == {"tokA", "tokB"}
\* expires_in values the token endpoint may report (u64 seconds)
TTLs == {0, 60, 61, 62}

NoRet == [kind |-> "none", token |-> "", err |-> "", via |-> "", at |-> 0, exp |-> None, ttl |-> 0]
NoStart == [expired |-> FALSE, afterReturn |-> FALSE]

\* ------------------------------------------------------ conversation store
\* channel ids, author ids and the conversation keys made of them: the channel
\* id, or format!("{}:{}", channel_id, author.id)
Chans == {"c1"}
Authors == {"u1", "u2"}
ChannelKey(chan) == <<chan>>
UserKey(chan, author) == <<chan, author>>
Keys == {ChannelKey(c) : c \in Chans} \cup {UserKey(c, a) : c \in Chans, a \in Authors}
DbKeys == {ChannelKey("c1"), UserKey("c1", "u1")}
Roles == {"user", "assistant"}
Contents == {"a", "b"}
\* limits a read may be asked for; ask_llama passes HISTORY_LIMIT
Limits == {1, 2, HISTORY_LIMIT}

NoDbRet == [op |-> "none", key |-> <<>>, limit |-> 0, rows |-> <<>>]

StoredMessage(r) == [role |-> r.role, content |-> r.content]

\* INSERT INTO messages (channel_id, role, content): id from the AUTOINCREMENT
\* sequence, timestamp DEFAULT (unixepoch())
store_message(rows, id, channel_id, role, content, t) ==
    rows \cup {[id |-> id, channel_id |-> channel_id, role |-> role,
                content |-> content, timestamp |-> t]}

\* DELETE FROM messages WHERE channel_id = ?1
clear_messages_all(rows, channel_id) == {}
clear_messages(rows, channel_id) == {r \in rows : r.channel_id # channel_id}
clear_messages_count(rows, channel_id) == Cardinality({r \in rows : r.channel_id = channel_id})

\* ORDER BY timestamp DESC, id DESC
Newer(r, q) ==
    \/ r.timestamp > q.timestamp
    \/ r.timestamp = q.timestamp /\ r.id > q.id
Older(r, q) == Newer(q, r)

\* SELECT ... ORDER BY timestamp DESC, id DESC LIMIT n
RECURSIVE NewestFirst(_, _)
NewestFirst(S, n) ==
    IF S = {} \/ n = 0
      THEN <<>>
      ELSE LET m == CHOOSE r \in S : \A q \in S \ {r} : Newer(r, q)
           IN  <<m>> \o NewestFirst(S \ {m}, n - 1)

RECURSIVE OldestFirst(_, _)
OldestFirst(S, n) ==
    IF S = {} \/ n = 0
      THEN <<>>
      ELSE LET m == CHOOSE r \in S : \A q \in S \ {r} : Older(r, q)
           IN  <<m>> \o OldestFirst(S \ {m}, n - 1)

Reverse(s) == [i \in 1..Len(s) |-> s[Len(s) + 1 - i]]

get_recent_messages_noreverse(rows, channel_id, limit) ==
    LET sel == NewestFirst({r \in rows : r.channel_id = channel_id}, limit)
    IN  [i \in 1..Len(sel) |-> StoredMessage(sel[i])]
get_recent_messages_oldest(rows, channel_id, limit) ==
    LET sel == OldestFirst({r \in rows : r.channel_id = channel_id}, limit)
    IN  [i \in 1..Len(sel) |-> StoredMessage(sel[i])]
get_recent_messages(rows, channel_id, limit) ==
    LET sel == NewestFirst({r \in rows : r.channel_id = channel_id}, limit)
        rev == Reverse(sel)
    IN  [i \in 1..Len(rev) |-> StoredMessage(rev[i])]

\* a database file left by earlier runs: HISTORY_LIMIT messages under k1
OldContents == <<"h0", "h1", "h2", "h3", "h4", "h5", "h6", "h7", "h8", "h9">>
OldRole(i) == IF i % 2 = 1 THEN "user" ELSE "assistant"
OldMessages ==
    {[id |-> i, channel_id |-> ChannelKey("c1"), role |-> OldRole(i), content |-> OldContents[i],
      timestamp |-> 0] : i \in 1..HISTORY_LIMIT}
OldLog == [i \in 1..HISTORY_LIMIT |-> [role |-> OldRole(i), content |-> OldContents[i]]]

InitStoreEmpty ==
    /\ messages = {}
    /\ next_id = 1
    /\ log = [k \in Keys |-> <<>>]
    /\ dbRet = NoDbRet

InitStoreOld ==
    /\ messages = OldMessages
    /\ next_id = HISTORY_LIMIT + 1
    /\ log = [k \in Keys |-> IF k = ChannelKey("c1") THEN OldLog ELSE <<>>]
    /\ dbRet = NoDbRet

\* ----------------------------------------------------------- config table
DEFAULT_SYSTEM_PROMPT == "DEFAULT_SYSTEM_PROMPT"
ContextModeKey(chan) == CASE chan = "c1" -> "context_mode:c1"
ConfigKeys == {"system_prompt", "response_cap"} \cup {ContextModeKey(c) : c \in Chans}

\* SELECT value FROM config WHERE key = ?1
get_config(cfg, key) == cfg[key]
\* INSERT ... ON CONFLICT(key) DO UPDATE SET value = excluded.value
set_config_or_ignore(cfg, key, value) ==
    IF IsSome(cfg[key]) THEN cfg ELSE [cfg EXCEPT ![key] = Some(value)]
set_config(cfg, key, value) == [cfg EXCEPT ![key] = Some(value)]

get_context_mode(cfg, chan) ==
    LET v == get_config(cfg, ContextModeKey(chan))
    IN  IF IsSome(v) THEN Unwrap(v) ELSE "channel"

set_context_mode(cfg, chan, mode) == set_config(cfg, ContextModeKey(chan), mode)

\* db::init on a config table: the default system prompt is seeded if absent
init_config(cfg) ==
    IF IsSome(cfg["system_prompt"]) THEN cfg
    ELSE [cfg EXCEPT !["system_prompt"] = Some(DEFAULT_SYSTEM_PROMPT)]

EmptyConfig == [k \in ConfigKeys |-> None]

\* --------------------------------------------------------------- the tasks
Tasks == 1..NumTasks
\* the mentions that arrive: <<author, content after the mention>>
Mentions == {<<"u1", "a">>, <<"u1", "">>, <<"u2", "b">>}
Replies == {"r"}

NoEvent == [cmd |-> "", chan |-> "", author |-> "", text |-> ""]
NoResult == [kind |-> "none", reply |-> "", err |-> ""]
\* key: the context key; prompt: the messages sent; res: ask_llama's result;
\* uid: the id of the user row this turn inserted, 0 if none (observer);
\* wiped: the key was cleared after that insert (observer); unread: the stored
\* mode was 'user' and reading it failed when the key was resolved (observer)
NoTurn == [key |-> <<>>, prompt |-> <<>>, res |-> NoResult, uid |-> 0, wiped |-> FALSE,
           unread |-> FALSE]

\* a fetch_wow_character call: its argument and its result, Ok(WowCharacter) or
\* Err(e); desc is format!("{} {}", race.name, character_class.name); seq: how
\* many fetches of the report had completed before this one (observer)
NoFetch == [kind |-> "none", arg |-> "", name |-> "", level |-> 0, desc |-> "", err |-> "",
            seq |-> 0]
\* the locals of a !levelcheck: use_insults, names, results, entries, errors, the
\* one-shot calls (insults) and the response sent
NoReport == [use_insults |-> FALSE, names |-> <<>>, results |-> <<>>, entries |-> <<>>,
             errors |-> <<>>, insults |-> <<>>, response |-> <<>>]

NoPrompt == [op |-> "none", key |-> <<>>, msgs |-> <<>>]

InitIdle ==
    /\ dbLock = None
    /\ pc = [t \in Tasks |-> "idle"]
    /\ ev = [t \in Tasks |-> NoEvent]
    /\ turn = [t \in Tasks |-> NoTurn]
    /\ fres = [c \in Callers |-> NoFetch]
    /\ rep = [t \in Tasks |-> NoReport]
    /\ asm = NoPrompt
    /\ accepted = None
    /\ written = [k \in ConfigKeys |-> None]

\* self.db.lock().await completes only when no task holds the guard
DbLockFree == dbLock = None

\* ------------------------------------------------- the conversational turn
\* a message of the prompt: a stored message, with the reply-length directive
\* "\n(Reply in {cap} words or less. Stay in character.)" pushed onto it or not
ChatMessage(role, content) == [role |-> role, content |-> content, directive |-> None]

DefaultCap == 10
\* a string of the cap arithmetic is the sequence of its characters: a digit is
\* its value, 43 is '+', 45 is '-', 97 is 'a'.
\* the digits of a decimal string (n.to_string()) and str::parse::<u32>: an
\* optional '+', then digits only, at least one, the value at most u32::MAX
\* (inputs of ten or more significant digits are drawn beyond u32::MAX only)
RECURSIVE to_string(_)
to_string(n) == IF n < 10 THEN <<n>> ELSE to_string(n \div 10) \o <<n % 10>>
RECURSIVE parse_digits(_, _)
parse_digits(d, acc) == IF d = <<>> THEN acc ELSE parse_digits(Tail(d), 10 * acc + Head(d))
RECURSIVE strip_zeros(_)
strip_zeros(d) == IF Len(d) > 1 /\ Head(d) = 0 THEN strip_zeros(Tail(d)) ELSE d
parse_u32(v) ==
    LET body == IF v # <<>> /\ Head(v) = 43 THEN Tail(v) ELSE v
    IN  IF body = <<>> \/ \E i \in 1..Len(body) : body[i] \notin 0..9 THEN None
        ELSE IF Len(strip_zeros(body)) > 9 THEN None
        ELSE Some(parse_digits(strip_zeros(body), 0))

\* get_config("response_cap").ok().flatten().and_then(parse).unwrap_or(10)
response_cap(cfg) ==
    LET v == get_config(cfg, "response_cap")
    IN  IF IsSome(v) /\ IsSome(parse_u32(Unwrap(v))) THEN Unwrap(parse_u32(Unwrap(v)))
        ELSE DefaultCap

\* the messages array of ask_llama: [system?] + history, the directive pushed
\* onto the last message when its role is user
push_directive_always(msgs, cap) ==
    IF msgs # <<>> THEN [msgs EXCEPT ![Len(msgs)].directive = Some(cap)] ELSE msgs
push_directive(msgs, cap) ==
    IF msgs # <<>> /\ msgs[Len(msgs)].role = "user"
      THEN [msgs EXCEPT ![Len(msgs)].directive = Some(cap)]
      ELSE msgs

build_messages_before_store(cfg, rows, key) ==
    LET sp == get_config(cfg, "system_prompt")
        system_prompt == IF IsSome(sp) THEN Unwrap(sp) ELSE ""
        own == {r \in rows : \A q \in rows : q.id <= r.id}
        history == get_recent_messages(rows \ own, key, HISTORY_LIMIT)
        sys == IF system_prompt # "" THEN <<ChatMessage("system", system_prompt)>> ELSE <<>>
        msgs == sys \o [i \in 1..Len(history) |-> ChatMessage(history[i].role, history[i].content)]
    IN  push_directive(msgs, response_cap(cfg))
build_messages(cfg, rows, key) ==
    LET sp == get_config(cfg, "system_prompt")
        system_prompt == IF IsSome(sp) THEN Unwrap(sp) ELSE ""
        history == get_recent_messages(rows, key, HISTORY_LIMIT)
        sys == IF system_prompt # "" THEN <<ChatMessage("system", system_prompt)>> ELSE <<>>
        msgs == sys \o [i \in 1..Len(history) |-> ChatMessage(history[i].role, history[i].content)]
    IN  push_directive(msgs, response_cap(cfg))

context_key(mode, chan, author) ==
    IF mode = "user" THEN UserKey(chan, author) ELSE ChannelKey(chan)

Err(e) == [kind |-> "err", reply |-> "", err |-> e]
Ok(reply) == [kind |-> "ok", reply |-> reply, err |-> ""]

\* a content with the directive text pushed onto it
with_directive(content) ==
    CASE content = "a" -> "a\n(Reply in N words or less. Stay in character.)"
      [] content = "b" -> "b\n(Reply in N words or less. Stay in character.)"
      [] OTHER -> "\n(Reply in N words or less. Stay in character.)"
Directed == {with_directive(c) : c \in {"a", "b", ""}}

\* the rows after ask_llama's first store call succeeded
rows_with_user_message_unstored(rows, id, key, text, t) == rows
rows_with_user_message_directive(rows, id, key, text, t) ==
    store_message(rows, id, key, "user", with_directive(text), t)
rows_with_user_message(rows, id, key, text, t) == store_message(rows, id, key, "user", text, t)

\* the runtime hands an event to a fresh task: tasks are interchangeable, the
\* lowest idle one is taken
FreeTask(t) == pc[t] = "idle" /\ \A u \in Tasks : u < t => pc[u] # "idle"

\* an event that is no command arrives: msg.mentions_me(..).await is awaited
Mention(t, chan, author, text) ==
    /\ FreeTask(t)
    /\ ops < MaxChatEvents
    /\ ops' = ops + 1
    /\ pc' = [pc EXCEPT ![t] = "mentions_me"]
    /\ ev' = [ev EXCEPT ![t] = [cmd |-> "mention", chan |-> chan, author |-> author, text |-> text]]
    /\ UNCHANGED <<accepted, asm, reportVars, now, authVars, storeVars, cfgVars, turn>>

\* mentions_me returned: not mentioned (or Err, unwrap_or(false)) ends the
\* handler; empty content is answered at once; else the store lock is awaited
Mentioned(t) ==
    /\ pc[t] = "mentions_me"
    /\ \/ /\ pc' = [pc EXCEPT ![t] = "idle"]
          /\ ev' = [ev EXCEPT ![t] = NoEvent]
       \/ /\ pc' = [pc EXCEPT ![t] = IF ev[t].text = "" THEN "say" ELSE "key_lock"]
          /\ UNCHANGED ev
    /\ UNCHANGED <<accepted, asm, reportVars, now, ops, authVars, storeVars, cfgVars, turn>>

\* under the store lock the context key is resolved; ask_llama is entered and
\* returns at once when LLAMA_API_URL is not configured
MentionKey(t) ==
    /\ pc[t] = "key_lock"
    /\ DbLockFree
    /\ \E dbok \in BOOLEAN :
         LET mode == IF dbok THEN get_context_mode(config, ev[t].chan) ELSE "channel"
             key == context_key(mode, ev[t].chan, ev[t].author)
             unread == ~dbok /\ get_config(config, ContextModeKey(ev[t].chan)) = Some("user")
         IN  IF llama_api_url
               THEN /\ turn' = [turn EXCEPT ![t] = [NoTurn EXCEPT !.key = key, !.unread = unread]]
                    /\ pc' = [pc EXCEPT ![t] = "ask_lock"]
               ELSE /\ turn' = [turn EXCEPT ![t] =
                                  [NoTurn EXCEPT !.key = key, !.unread = unread,
                                                 !.res = Err("not configured")]]
                    /\ pc' = [pc EXCEPT ![t] = "say"]
    /\ UNCHANGED <<accepted, asm, reportVars, now, ops, authVars, storeVars, cfgVars, ev>>

\* ask_llama under the store lock: store the user message, read the system
\* prompt and the history, build the messages; the lock is dropped and the
\* request is sent
AskAssemble(t) ==
    /\ pc[t] = "ask_lock"
    /\ DbLockFree
    /\ LET key == turn[t].key
           rows == rows_with_user_message(messages, next_id, key, ev[t].text, now)
           stored == /\ messages' = rows
                     /\ next_id' = next_id + 1
                     /\ log' = [log EXCEPT ![key] =
                                  Append(@, [role |-> "user", content |-> ev[t].text])]
       IN  \/ /\ turn' = [turn EXCEPT ![t].res = Err("DB error storing user message")]
              /\ pc' = [pc EXCEPT ![t] = "say"]
              /\ UNCHANGED <<messages, next_id, log>>
           \/ /\ stored
              /\ \E e \in {"DB error reading system prompt", "DB error reading history"} :
                   turn' = [turn EXCEPT ![t].res = Err(e), ![t].uid = next_id]
              /\ pc' = [pc EXCEPT ![t] = "say"]
           \/ /\ stored
              /\ turn' = [turn EXCEPT ![t].prompt = build_messages(config, rows, key),
                                      ![t].uid = next_id]
              /\ pc' = [pc EXCEPT ![t] = "post"]
    /\ UNCHANGED <<accepted, asm, reportVars, now, ops, authVars, dbRet, cfgVars, ev>>

\* .send().await returned
AskSent(t) ==
    /\ pc[t] = "post"
    /\ \/ /\ \E e \in {"Failed to reach llama.cpp", "llama.cpp returned status"} :
               turn' = [turn EXCEPT ![t].res = Err(e)]
          /\ pc' = [pc EXCEPT ![t] = "say"]
       \/ /\ pc' = [pc EXCEPT ![t] = "body"]
          /\ UNCHANGED turn
    /\ UNCHANGED <<accepted, asm, reportVars, now, ops, authVars, storeVars, cfgVars, ev>>

\* the `choices` a parsed response body may carry: none, one, or two
ChoiceLists(contents) ==
    {<<>>} \cup {<<x>> : x \in contents} \cup {<<x, "">> : x \in contents}
\* chat_response.choices.first().map(|c| c.message.content.clone())
\*     .ok_or_else(|| "No response from model".to_string())
first_choice_or_default(choices) == IF choices = <<>> THEN Ok("") ELSE Ok(choices[1])
first_choice(choices) ==
    IF choices = <<>> THEN Err("No response from model") ELSE Ok(choices[1])

\* response.json().await returned: a parse error, or a body whose first choice
\* is the reply
AskParsed(t) ==
    /\ pc[t] = "body"
    /\ \/ /\ turn' = [turn EXCEPT ![t].res = Err("Failed to parse response")]
          /\ pc' = [pc EXCEPT ![t] = "say"]
       \/ \E choices \in ChoiceLists(Replies) :
            LET r == first_choice(choices)
            IN  IF r.kind = "err"
                  THEN /\ turn' = [turn EXCEPT ![t].res = r]
                       /\ pc' = [pc EXCEPT ![t] = "say"]
                  ELSE /\ turn' = [turn EXCEPT ![t].res.reply = r.reply]
                       /\ pc' = [pc EXCEPT ![t] = "reply_lock"]
    /\ UNCHANGED <<accepted, asm, reportVars, now, ops, authVars, storeVars, cfgVars, ev>>

\* the rows after ask_llama's second store call succeeded
rows_with_reply_as_user(rows, id, key, reply, t) == store_message(rows, id, key, "user", reply, t)
rows_with_reply(rows, id, key, reply, t) == store_message(rows, id, key, "assistant", reply, t)

\* under the store lock the reply is stored (an error is only logged); Ok(reply)
AskStoreReply(t) ==
    /\ pc[t] = "reply_lock"
    /\ DbLockFree
    /\ LET key == turn[t].key
           reply == turn[t].res.reply
       IN  \/ /\ messages' = rows_with_reply(messages, next_id, key, reply, now)
              /\ next_id' = next_id + 1
              /\ log' = [log EXCEPT ![key] = Append(@, [role |-> "assistant", content |-> reply])]
           \/ UNCHANGED <<messages, next_id, log>>
    /\ turn' = [turn EXCEPT ![t].res = Ok(turn[t].res.reply)]
    /\ pc' = [pc EXCEPT ![t] = "say"]
    /\ UNCHANGED <<accepted, asm, reportVars, now, ops, authVars, dbRet, cfgVars, ev>>

\* msg.channel_id.say(..).await returned (an error is only logged)
MentionSaid(t) ==
    /\ pc[t] = "say"
    /\ pc' = [pc EXCEPT ![t] = "idle"]
    /\ ev' = [ev EXCEPT ![t] = NoEvent]
    /\ turn' = [turn EXCEPT ![t] = NoTurn]
    /\ UNCHANGED <<accepted, asm, reportVars, now, ops, authVars, storeVars, cfgVars>>

\* ------------------------------------------------------------------ !clear
Clear(t, chan, author) ==
    /\ FreeTask(t)
    /\ ops < MaxChatEvents
    /\ ops' = ops + 1
    /\ pc' = [pc EXCEPT ![t] = "clear_lock"]
    /\ ev' = [ev EXCEPT ![t] = [cmd |-> "!clear", chan |-> chan, author |-> author, text |-> ""]]
    /\ UNCHANGED <<accepted, asm, reportVars, now, authVars, storeVars, cfgVars, turn>>

\* the lock is granted: the key is resolved and its messages are deleted; the
\* guard `conn` lives to the end of the block, across the say
ClearRun(t) ==
    /\ pc[t] = "clear_lock"
    /\ DbLockFree
    /\ \E dbok \in BOOLEAN :
         LET mode == IF dbok THEN get_context_mode(config, ev[t].chan) ELSE "channel"
             key == context_key(mode, ev[t].chan, ev[t].author)
         IN  \/ /\ messages' = clear_messages(messages, key)
                /\ log' = [log EXCEPT ![key] = <<>>]
                /\ turn' = [u \in Tasks |->
                              IF turn[u].key = key /\ turn[u].uid # 0
                                THEN [turn[u] EXCEPT !.wiped = TRUE] ELSE turn[u]]
                /\ pc' = [pc EXCEPT ![t] = "clear_say"]
                /\ dbLock' = Some(t)
                /\ UNCHANGED ev
             \/ /\ pc' = [pc EXCEPT ![t] = "idle"]
                /\ ev' = [ev EXCEPT ![t] = NoEvent]
                /\ UNCHANGED <<messages, log, turn, dbLock>>
    /\ UNCHANGED <<accepted, asm, reportVars, now, ops, authVars, next_id, dbRet, llama_api_url, config, written>>

\* say(..).await returned; the handler returns and the guard is dropped
ClearSaid(t) ==
    /\ pc[t] = "clear_say"
    /\ pc' = [pc EXCEPT ![t] = "idle"]
    /\ ev' = [ev EXCEPT ![t] = NoEvent]
    /\ dbLock' = None
    /\ UNCHANGED <<accepted, asm, reportVars, now, ops, authVars, storeVars, llama_api_url, config, written, turn>>

\* -------------------------------------------------------------------- !cap
\* the arguments tried: none, "0", "7", "07", "+7", "500", "501", "a", "-1" and
\* "4294967296"
CapArgs == {<<>>, <<0>>, <<7>>, <<0, 7>>, <<43, 7>>, <<5, 0, 0>>, <<5, 0, 1>>, <<97>>, <<45, 1>>,
            <<4, 2, 9, 4, 9, 6, 7, 2, 9, 6>>}

\* (1..=500).contains(&n)
in_cap_range_to_501(n) == n >= 1 /\ n <= 501
in_cap_range(n) == n >= 1 /\ n <= 500

\* "!cap <arg>" arrives: without argument the cap is shown (the store lock is
\* awaited), a number in range is saved (the store lock is awaited), anything
\* else is answered with the usage
Cap(t, arg) ==
    /\ FreeTask(t)
    /\ ops < MaxChatEvents
    /\ ops' = ops + 1
    /\ LET n == parse_u32(arg)
           e == [cmd |-> "!cap", chan |-> "c1", author |-> "u1", text |-> "", arg |-> arg,
                 n |-> n]
       IN  /\ ev' = [ev EXCEPT ![t] = e]
           /\ pc' = [pc EXCEPT ![t] =
                       IF arg = <<>> THEN "capview_lock"
                       ELSE IF IsSome(n) /\ in_cap_range(Unwrap(n)) THEN "capset_lock"
                       ELSE "cap_say"]
    /\ UNCHANGED <<now, authVars, storeVars, cfgVars, turn, reportVars, asm, accepted>>

\* the cap is read under the store lock, the lock is dropped, the reply is sent
CapView(t) ==
    /\ pc[t] = "capview_lock"
    /\ DbLockFree
    /\ pc' = [pc EXCEPT ![t] = "cap_say"]
    /\ UNCHANGED <<now, ops, authVars, storeVars, cfgVars, ev, turn, reportVars, asm, accepted>>

\* set_config("response_cap", n.to_string()) under the store lock: saved or
\* failed; the guard `conn` lives across the say
CapSet(t) ==
    /\ pc[t] = "capset_lock"
    /\ DbLockFree
    /\ \/ /\ config' = set_config(config, "response_cap", to_string(Unwrap(ev[t].n)))
          /\ written' = [written EXCEPT !["response_cap"] = Some(to_string(Unwrap(ev[t].n)))]
          /\ accepted' = ev[t].n
       \/ UNCHANGED <<config, written, accepted>>
    /\ pc' = [pc EXCEPT ![t] = "capset_say"]
    /\ dbLock' = Some(t)
    /\ UNCHANGED <<now, ops, authVars, storeVars, llama_api_url, ev, turn, reportVars, asm>>

\* say(..).await returned; the handler returns and the guard is dropped
CapSetSaid(t) ==
    /\ pc[t] = "capset_say"
    /\ pc' = [pc EXCEPT ![t] = "idle"]
    /\ ev' = [ev EXCEPT ![t] = NoEvent]
    /\ dbLock' = None
    /\ UNCHANGED <<now, ops, authVars, storeVars, llama_api_url, config, written, turn, reportVars,
                   asm, accepted>>

\* say(..).await returned (the cap shown, or the usage)
CapSaid(t) ==
    /\ pc[t] = "cap_say"
    /\ pc' = [pc EXCEPT ![t] = "idle"]
    /\ ev' = [ev EXCEPT ![t] = NoEvent]
    /\ UNCHANGED <<now, ops, authVars, storeVars, cfgVars, turn, reportVars, asm, accepted>>

\* ------------------------------------------ !contextchannel and !contextuser
\* "!contextchannel" or "!contextuser" arrives: the store lock is awaited
Context(t, chan, author, mode) ==
    /\ FreeTask(t)
    /\ ops < MaxChatEvents
    /\ ops' = ops + 1
    /\ pc' = [pc EXCEPT ![t] = "ctx_lock"]
    /\ ev' = [ev EXCEPT ![t] = [cmd |-> IF mode = "user" THEN "!contextuser" ELSE "!contextchannel",
                                chan |-> chan, author |-> author, text |-> ""]]
    /\ UNCHANGED <<now, authVars, storeVars, cfgVars, turn, reportVars, asm, accepted>>

\* set_context_mode under the store lock: saved, and the guard `conn` lives
\* across the say; or failed, which is logged and ends the handler
ContextSet(t) ==
    /\ pc[t] = "ctx_lock"
    /\ DbLockFree
    /\ LET mode == IF ev[t].cmd = "!contextuser" THEN "user" ELSE "channel"
       IN  \/ /\ config' = set_context_mode(config, ev[t].chan, mode)
              /\ written' = [written EXCEPT ![ContextModeKey(ev[t].chan)] = Some(mode)]
              /\ dbLock' = Some(t)
              /\ pc' = [pc EXCEPT ![t] = "ctx_say"]
              /\ UNCHANGED ev
           \/ /\ pc' = [pc EXCEPT ![t] = "idle"]
              /\ ev' = [ev EXCEPT ![t] = NoEvent]
              /\ UNCHANGED <<config, written, dbLock>>
    /\ UNCHANGED <<now, ops, authVars, storeVars, llama_api_url, turn, reportVars, asm, accepted>>

\* say(..).await returned; the handler returns and the guard is dropped
ContextSaid(t) ==
    /\ pc[t] = "ctx_say"
    /\ pc' = [pc EXCEPT ![t] = "idle"]
    /\ ev' = [ev EXCEPT ![t] = NoEvent]
    /\ dbLock' = None
    /\ UNCHANGED <<now, ops, authVars, storeVars, llama_api_url, config, written, turn, reportVars,
                   asm, accepted>>

\* ------------------------------------------------------ credential cache
BattleNetAuth_new == [token |-> None, expires_at |-> None]

is_expired_strict(a, t) == IF IsSome(a.expires_at) THEN t > Unwrap(a.expires_at) ELSE TRUE
is_expired_always(a, t) == TRUE
is_expired(a, t) == IF IsSome(a.expires_at) THEN t >= Unwrap(a.expires_at) ELSE TRUE

\* u64::saturating_sub
signed_sub(a, b) == a - b
saturating_sub(a, b) == IF a >= b THEN a - b ELSE 0

\* auth_lock.lock().await completes only when no other caller holds the guard
AuthLockFree_shared == TRUE
AuthLockFree == authLock = None

\* the cache after a failed exchange: `?` and the early return leave it alone
AuthAfterFailure_cleared(a) == BattleNetAuth_new
AuthAfterFailure(a) == a

\* the cache after a successful exchange: token, then expires_at
AuthAfterRefresh_expiry_only(tok, ttl, t) ==
    [token |-> None, expires_at |-> Some(t + saturating_sub(ttl, SafetyMargin))]
AuthAfterRefresh(tok, ttl, t) ==
    [token |-> Some(tok), expires_at |-> Some(t + saturating_sub(ttl, SafetyMargin))]

\* a call's result; besides Ok(token) / Err(e) it records how and when the call
\* returned: via (cache, exchange, config), at (the clock), exp (the expires_at
\* of the token handed out), ttl (the expires_in reported)
RetOk(tok, via, exp, ttl) ==
    [kind |-> "ok", token |-> tok, err |-> "", via |-> via, at |-> now, exp |-> exp,
     ttl |-> ttl]
RetErr(e, via) ==
    [kind |-> "err", token |-> "", err |-> e, via |-> via, at |-> now, exp |-> None,
     ttl |-> 0]

\* get_battlenet_token is entered: the not-configured early return, or the
\* caller starts waiting for the lock
TokenCall(c) ==
    /\ cpc[c] = "idle"
    /\ cstart' = [cstart EXCEPT ![c] =
                    [expired |-> is_expired(auth, now),
                     afterReturn |-> \E d \in Callers : cpc[d] = "done"]]
    /\ IF battlenet_auth
         THEN /\ cpc' = [cpc EXCEPT ![c] = "lock"]
              /\ cret' = [cret EXCEPT ![c] = NoRet]
         ELSE /\ cpc' = [cpc EXCEPT ![c] = "done"]
              /\ cret' = [cret EXCEPT ![c] = RetErr("Battle.net not configured", "config")]
    /\ UNCHANGED <<accepted, asm, reportVars, now, battlenet_auth, auth, authLock, storeVars, cfgVars, taskVars>>

\* the lock is granted; the cached token is returned, or the exchange is sent
TokenLocked(c) ==
    /\ cpc[c] = "lock"
    /\ AuthLockFree
    /\ IF ~is_expired(auth, now)
         THEN /\ cpc' = [cpc EXCEPT ![c] = "done"]
              /\ cret' = [cret EXCEPT ![c] = RetOk(Unwrap(auth.token), "cache", auth.expires_at, 0)]
              /\ UNCHANGED authLock
         ELSE /\ cpc' = [cpc EXCEPT ![c] = "send"]
              /\ authLock' = Some(c)
              /\ UNCHANGED cret
    /\ UNCHANGED <<accepted, asm, reportVars, now, battlenet_auth, auth, cstart, ops, storeVars, cfgVars, taskVars>>

TokenFail(c, e) ==
    /\ cpc' = [cpc EXCEPT ![c] = "done"]
    /\ cret' = [cret EXCEPT ![c] = RetErr(e, "exchange")]
    /\ auth' = AuthAfterFailure(auth)
    /\ authLock' = None
    /\ UNCHANGED <<accepted, asm, reportVars, now, battlenet_auth, cstart, ops, storeVars, cfgVars, taskVars>>

\* .send().await returns: a transport error, a non-success status, or a response
TokenSent(c) ==
    /\ cpc[c] = "send"
    /\ \/ TokenFail(c, "OAuth request failed")
       \/ TokenFail(c, "OAuth returned status")
       \/ /\ cpc' = [cpc EXCEPT ![c] = "json"]
          /\ UNCHANGED <<accepted, asm, reportVars, now, battlenet_auth, auth, authLock, cret, cstart, ops, storeVars, cfgVars, taskVars>>

\* resp.json().await returns: a parse error, or the token and its expires_in
TokenParsed(c) ==
    /\ cpc[c] = "json"
    /\ \/ TokenFail(c, "Failed to parse OAuth response")
       \/ \E tok \in Tokens, ttl \in TTLs :
            /\ auth' = AuthAfterRefresh(tok, ttl, now)
            /\ cpc' = [cpc EXCEPT ![c] = "done"]
            /\ cret' = [cret EXCEPT ![c] = RetOk(tok, "exchange", auth'.expires_at, ttl)]
            /\ authLock' = None
            /\ UNCHANGED <<accepted, asm, reportVars, now, battlenet_auth, cstart, ops, storeVars, cfgVars, taskVars>>

Tick ==
    /\ now < MaxTime
    /\ now' = now + 1
    /\ UNCHANGED <<accepted, asm, reportVars, ops, authVars, storeVars, cfgVars, taskVars>>

\* ----------------------------------------- the cache under concurrent callers
\* a caller (fetch_wow_character, main.rs:133) asks for a token
CacheCall(c) ==
    /\ ops < MaxCalls
    /\ ops' = ops + 1
    /\ TokenCall(c)

\* the caller has taken the result; it may call again
CacheReturn(c) ==
    /\ cpc[c] = "done"
    /\ cpc' = [cpc EXCEPT ![c] = "idle"]
    /\ cret' = [cret EXCEPT ![c] = NoRet]
    /\ cstart' = [cstart EXCEPT ![c] = NoStart]
    /\ UNCHANGED <<accepted, asm, reportVars, now, battlenet_auth, auth, authLock, ops, storeVars, cfgVars, taskVars>>

InitAuth ==
    /\ now = 0
    /\ battlenet_auth \in BOOLEAN
    /\ auth = BattleNetAuth_new
    /\ authLock = None
    /\ cpc = [c \in Callers |-> "idle"]
    /\ cret = [c \in Callers |-> NoRet]
    /\ cstart = [c \in Callers |-> NoStart]
    /\ ops = 0
    /\ InitStoreEmpty
    /\ InitIdle
    /\ tracked = {}
    /\ llama_api_url = FALSE
    /\ config = init_config(EmptyConfig)

NextAuth ==
    \/ \E c \in Callers : CacheCall(c)
    \/ \E c \in Callers : TokenLocked(c)
    \/ \E c \in Callers : TokenSent(c)
    \/ \E c \in Callers : TokenParsed(c)
    \/ \E c \in Callers : CacheReturn(c)
    \/ Tick

SpecAuth == InitAuth /\ [][NextAuth]_vars

\* ------------------------------------------------ credential cache: claims
Exchanging == {c \in Callers : cpc[c] \in {"send", "json"}}
Max(S) == CHOOSE x \in S : \A y \in S : x >= y

\* a credential-exchange request is issued exactly when a caller moves to "send".
\* All callers have been served, each call started while the cached token was
\* absent or expired, and every call started before any of them returned
Race ==
    /\ \A c \in Callers : cpc[c] = "done" /\ cstart[c].expired
    /\ \A c \in Callers : ~cstart[c].afterReturn
\* the credential-exchange requests the racing ops issued
RacePosts == Cardinality({c \in Callers : cret[c].via = "exchange"})
AllSameToken == \A c, d \in Callers : cret[c].kind = "ok" /\ cret[c].token = cret[d].token

\* C1 as stated: N concurrent ops racing against an absent or expired token
\* cause exactly one credential-exchange request and all receive the same token.
C1_OneExchangeAlways == Race => (RacePosts = 1 /\ AllSameToken)

\* every exchange of the race succeeded and the token it produced had not reached
\* its expires_at when the last caller was served
RaceTokenLasts ==
    \A c \in Callers :
        /\ cret[c].kind = "ok"
        /\ cret[c].via = "exchange" => Unwrap(cret[c].exp) > Max({cret[d].at : d \in Callers})

\* C1 amended: if the exchange succeeds and its token is still unexpired when the
\* last of the N racing callers is served, exactly one credential-exchange request
\* is issued and all N callers receive the same token.
C1_OneExchangeWhenTokenLasts == (Race /\ RaceTokenLasts) => (RacePosts = 1 /\ AllSameToken)

C1_Witness ==
    /\ Race /\ RaceTokenLasts
    /\ \E c \in Callers : cret[c].via = "exchange"
    /\ \E c \in Callers : cret[c].via = "cache"

\* C4: when the credential exchange fails, the call returns an error and the
\* cached token and expires_at are what they were before.
C4_FailureKeepsCache ==
    [][\A c \in Callers :
          (cpc[c] \in {"send", "json"} /\ cpc'[c] = "done" /\ cret'[c].kind # "ok")
             => (cret'[c].kind = "err" /\ auth' = auth)]_vars

C4_Witness ==
    \E c \in Callers :
        /\ cpc[c] = "done" /\ cret[c].kind = "err" /\ cret[c].via = "exchange"
        /\ IsSome(auth.token)

\* C5 as stated: every token returned, cached or fresh, is returned at a time
\* strictly earlier than its expires_at.
C5_ReturnedBeforeExpiry ==
    \A c \in Callers : cret[c].kind = "ok" => cret[c].at < Unwrap(cret[c].exp)

\* C5 amended: a token served from the cache is returned strictly before its
\* expires_at; a freshly obtained token is returned at the refresh instant, whose
\* expires_at is that instant plus expires_in - 60 when expires_in > 60 and that
\* very instant otherwise.
C5_CachedBeforeExpiry ==
    \A c \in Callers :
        cret[c].kind = "ok" =>
            /\ cret[c].via = "cache" => cret[c].at < Unwrap(cret[c].exp)
            /\ cret[c].via = "exchange" =>
                 Unwrap(cret[c].exp) =
                    IF cret[c].ttl > SafetyMargin
                      THEN cret[c].at + (cret[c].ttl - SafetyMargin)
                      ELSE cret[c].at

C5_Witness ==
    /\ \E c \in Callers : cret[c].kind = "ok" /\ cret[c].via = "cache"
    /\ \E c \in Callers : cret[c].kind = "ok" /\ cret[c].via = "exchange"
                            /\ cret[c].ttl <= SafetyMargin

\* C6: if a cached token exists and now < expires_at when the call checks the
\* cache, it returns that token and issues no credential-exchange request.
C6_FreshTokenServedFromCache ==
    [][\A c \in Callers :
          (/\ cpc[c] = "lock" /\ cpc'[c] # "lock"
           /\ IsSome(auth.token) /\ IsSome(auth.expires_at)
           /\ now < Unwrap(auth.expires_at))
             => (/\ cpc'[c] = "done"
                 /\ cret'[c].kind = "ok"
                 /\ cret'[c].token = Unwrap(auth.token)
                 /\ cpc'[c] # "send"
                 /\ auth' = auth)]_vars

C6_Witness ==
    \E c \in Callers : cpc[c] = "done" /\ cret[c].kind = "ok" /\ cret[c].via = "cache"

\* C7: at most one credential-exchange request is in flight at any moment.
C7_OneExchangeInFlight == Cardinality(Exchanging) <= 1

C7_Witness ==
    /\ Cardinality(Exchanging) = 1
    /\ \E c \in Callers : cpc[c] = "lock"

\* the exchange of caller d reported an expires_in of at most the margin and its
\* token is the cached one
ShortLived(d) ==
    /\ cret[d].kind = "ok" /\ cret[d].via = "exchange" /\ cret[d].ttl <= SafetyMargin
    /\ auth.token = Some(cret[d].token) /\ auth.expires_at = cret[d].exp

\* C25: after a successful exchange whose expires_in is at most 60, expires_at
\* is the refresh instant (not earlier), the cached token is expired at once,
\* and the next call that checks the cache performs a new exchange.
C25_ShortTtlExpiresAtOnce ==
    /\ [][\A c \in Callers :
            (cpc[c] = "json" /\ cpc'[c] = "done" /\ cret'[c].kind = "ok"
               /\ cret'[c].ttl <= SafetyMargin)
              => (/\ auth'.expires_at = Some(now)
                  /\ auth'.token = Some(cret'[c].token)
                  /\ is_expired(auth', now'))]_vars
    /\ [][\A c, d \in Callers :
            (cpc[c] = "lock" /\ cpc'[c] # "lock" /\ ShortLived(d)) => cpc'[c] = "send"]_vars

C25_Witness ==
    \E c, d \in Callers :
        /\ cpc[c] = "send"
        /\ ShortLived(d)
        /\ cret[d].ttl = SafetyMargin
        /\ cret[d].exp = Some(cret[d].at)

\* C30: expires_at is set only when token is set: the cache never has an expiry
\* without a token, so the unwrap on the not-expired path finds a token, and
\* what that path returns is the token the cache holds.
C30_ExpiryImpliesToken ==
    /\ [](IsSome(auth.expires_at) => IsSome(auth.token))
    /\ [](~is_expired(auth, now) => auth.token # None /\ Unwrap(auth.token) \in Tokens)
    /\ [][auth'.expires_at # auth.expires_at => IsSome(auth'.token)]_vars
    /\ [][\A c \in Callers :
            (cpc[c] = "lock" /\ cpc'[c] = "done") =>
                /\ ~is_expired(auth, now)
                /\ cret'[c] = RetOk(Unwrap(auth.token), "cache", auth.expires_at, 0)]_vars

\* a caller was served from the cache the token a refresh had stored
C30_Witness ==
    \E c \in Callers :
        /\ cpc[c] = "done" /\ cret[c].via = "cache"
        /\ auth.token = Some(cret[c].token)
        /\ ~is_expired(auth, now)

\* ------------------------------------------------------- tracked characters
\* the names that may be tracked, in the order of ORDER BY name (COLLATE NOCASE)
TrackNames == <<"Ann", "bob", "Cy">>
\* all the names of the model, in the order of ORDER BY name (COLLATE NOCASE);
\* "E'va" and "e'va" stand for the name Eva spelt with U+00C9 and with U+00E9
NameOrder == <<"Ann", "ann", "bob", "Cy", "E'va", "e'va">>
\* str::to_lowercase: the Unicode lowercase mapping
to_lowercase(name) ==
    CASE name \in {"Ann", "ann"} -> "ann"
      [] name = "bob" -> "bob"
      [] name = "Cy" -> "cy"
      [] name \in {"E'va", "e'va"} -> "e'va"
\* the key of SQLite's NOCASE collation: only the 26 ASCII upper case letters
\* are folded
nocase_unicode(name) == to_lowercase(name)
nocase(name) ==
    CASE name \in {"Ann", "ann"} -> "ann"
      [] name = "bob" -> "bob"
      [] name = "Cy" -> "cy"
      [] name = "E'va" -> "E'va"
      [] name = "e'va" -> "e'va"
\* the character name the profile API reports for a slug
ApiName(slug) ==
    CASE slug = "ann" -> "Ann" [] slug = "bob" -> "Bob" [] slug = "cy" -> "Cy"
      [] slug = "e'va" -> "E'va"
Levels == {10, 40}
Desc == "Orc Warrior"
InsultTexts == {" lame "}
trim(text) == CASE text = " lame " -> "lame" [] OTHER -> text

\* SELECT name FROM tracked_characters ORDER BY name
get_tracked_characters(tbl) == SelectSeq(NameOrder, LAMBDA n : \E r \in tbl : r.name = n)

\* the rows whose name equals `name` under the column's collation
rows_named(tbl, name) == {r \in tbl : nocase(r.name) = nocase(name)}
\* INSERT OR IGNORE INTO tracked_characters (name, added_by): the table after
\* the call and Ok(rows > 0)
add_tracked_character(tbl, name, added_by) ==
    IF rows_named(tbl, name) = {}
      THEN [tbl |-> tbl \cup {[name |-> name, added_by |-> added_by]}, ret |-> TRUE]
      ELSE [tbl |-> tbl, ret |-> FALSE]
\* DELETE FROM tracked_characters WHERE name = ?1: the table after the call and
\* Ok(rows > 0)
remove_tracked_character(tbl, name) ==
    [tbl |-> tbl \ rows_named(tbl, name), ret |-> rows_named(tbl, name) # {}]

\* the tables a !levelcheck may find: at most one fetch per caller slot
TrackedTables ==
    {{[name |-> TrackNames[i], added_by |-> "u1"] : i \in I} :
        I \in {J \in SUBSET (1..Len(TrackNames)) : Cardinality(J) <= NumCallers}}

\* ------------------------------------------------------ fetch_wow_character
Finished == Cardinality({c \in Callers : cpc[c] = "fetched"})
FetchErr(f, e) == [f EXCEPT !.kind = "err", !.err = e, !.seq = Finished]
FetchOk(f, level) ==
    [f EXCEPT !.kind = "ok", !.name = ApiName(to_lowercase(f.arg)), !.level = level, !.desc = Desc,
              !.seq = Finished]

\* get_battlenet_token returned: `?` ends the fetch with its error, or the GET
\* is sent with the token
FetchToken(c) ==
    /\ cpc[c] = "done"
    /\ IF cret[c].kind = "err"
         THEN /\ fres' = [fres EXCEPT ![c] = FetchErr(@, cret[c].err)]
              /\ cpc' = [cpc EXCEPT ![c] = "fetched"]
         ELSE /\ cpc' = [cpc EXCEPT ![c] = "get"]
              /\ UNCHANGED fres
    /\ cret' = [cret EXCEPT ![c] = NoRet]
    /\ cstart' = [cstart EXCEPT ![c] = NoStart]
    /\ UNCHANGED <<accepted, asm, now, ops, battlenet_auth, auth, authLock, storeVars, cfgVars, taskVars,
                   tracked, rep>>

\* .send().await returned: a transport error, 404, another non-success status,
\* or a response whose body is read
FetchSent(c) ==
    /\ cpc[c] = "get"
    /\ \/ /\ \E e \in {"API request failed", "not found on Nightslayer",
                       "Blizzard API returned status"} :
               fres' = [fres EXCEPT ![c] = FetchErr(@, e)]
          /\ cpc' = [cpc EXCEPT ![c] = "fetched"]
       \/ /\ cpc' = [cpc EXCEPT ![c] = "profile"]
          /\ UNCHANGED fres
    /\ UNCHANGED <<accepted, asm, now, ops, battlenet_auth, auth, authLock, cret, cstart, storeVars, cfgVars,
                   taskVars, tracked, rep>>

\* resp.json::<WowCharacter>().await returned
FetchParsed(c) ==
    /\ cpc[c] = "profile"
    /\ \/ fres' = [fres EXCEPT ![c] = FetchErr(@, "Failed to parse character data")]
       \/ \E level \in Levels : fres' = [fres EXCEPT ![c] = FetchOk(@, level)]
    /\ cpc' = [cpc EXCEPT ![c] = "fetched"]
    /\ UNCHANGED <<accepted, asm, now, ops, battlenet_auth, auth, authLock, cret, cstart, storeVars, cfgVars,
                   taskVars, tracked, rep>>

\* -------------------------------------------------------------- !levelcheck
Entry(r) == [name |-> r.name, level |-> r.level, desc |-> r.desc]
\* format!("{}: {}", name, e)
ErrorLine(name, e) == [name |-> name, err |-> e]

\* for (name, result) in names.iter().zip(results): Ok -> entries, Err -> errors
RECURSIVE partition_skip_not_found(_, _)
partition_skip_not_found(names, results) ==
    IF names = <<>> \/ results = <<>>
      THEN [entries |-> <<>>, errors |-> <<>>]
      ELSE LET rest == partition_skip_not_found(Tail(names), Tail(results))
               r == Head(results)
           IN  IF r.kind = "ok"
                 THEN [entries |-> <<Entry(r)>> \o rest.entries, errors |-> rest.errors]
                 ELSE IF r.err = "not found on Nightslayer" THEN rest
                 ELSE [entries |-> rest.entries,
                       errors |-> <<ErrorLine(Head(names), r.err)>> \o rest.errors]
RECURSIVE partition(_, _)
partition(names, results) ==
    IF names = <<>> \/ results = <<>>
      THEN [entries |-> <<>>, errors |-> <<>>]
      ELSE LET rest == partition(Tail(names), Tail(results))
               r == Head(results)
           IN  IF r.kind = "ok"
                 THEN [entries |-> <<Entry(r)>> \o rest.entries, errors |-> rest.errors]
                 ELSE [entries |-> rest.entries,
                       errors |-> <<ErrorLine(Head(names), r.err)>> \o rest.errors]

\* entries.sort_by(|a, b| b.1.cmp(&a.1)): a stable sort, level descending; an
\* entry is placed after the ones before it that are not lower
insert_by_level_before_equal(sorted, e) ==
    LET k == Cardinality({i \in 1..Len(sorted) : sorted[i].level > e.level})
    IN  SubSeq(sorted, 1, k) \o <<e>> \o SubSeq(sorted, k + 1, Len(sorted))
insert_by_level(sorted, e) ==
    LET k == Cardinality({i \in 1..Len(sorted) : sorted[i].level >= e.level})
    IN  SubSeq(sorted, 1, k) \o <<e>> \o SubSeq(sorted, k + 1, Len(sorted))
RECURSIVE sort_by_level(_)
sort_by_level(es) ==
    IF es = <<>> THEN <<>>
    ELSE insert_by_level(sort_by_level(SubSeq(es, 1, Len(es) - 1)), es[Len(es)])

\* the response: the header, a line per entry (with its insult when there is
\* one), then a line per error
render(entries, insults, errors) ==
    [kind |-> "report",
     lines |-> [i \in 1..Len(entries) |->
                  [kind |-> "entry", name |-> entries[i].name, level |-> entries[i].level,
                   desc |-> entries[i].desc,
                   insult |-> IF IsSome(insults[i]) THEN Some(trim(Unwrap(insults[i])))
                              ELSE None]]
               \o [i \in 1..Len(errors) |-> [kind |-> "error", text |-> errors[i]]]]

PlainResponse(text) == [kind |-> text, lines |-> <<>>]

\* a one-shot call of the insult fan-out: its position, the entry its prompt was
\* made of, and its result
OneShot(st, e, text) == [st |-> st, of |-> e, text |-> text]
InsultResults_all_or_none(calls) ==
    [i \in 1..Len(calls) |->
       IF \E j \in 1..Len(calls) : calls[j].text = None THEN None ELSE calls[i].text]
InsultResults(calls) == [i \in 1..Len(calls) |-> calls[i].text]

\* join_all(futures).await: the outputs, in the order of the futures
join_all_reversed(outs, n) == [i \in 1..n |-> outs[n + 1 - i]]
join_all(outs, n) == [i \in 1..n |-> outs[i]]

\* the task runs the !levelcheck handler
Reporting(u) == pc[u] \in {"names_lock", "fetching", "prompt_lock", "insulting", "report_say"}

\* "!levelcheck" or "!levelcheckraw" arrives; without credentials the handler
\* answers at once.  One report runs at a time: its fetches take the caller slots.
Levelcheck(t, raw) ==
    /\ FreeTask(t)
    /\ \A u \in Tasks : ~Reporting(u)
    /\ \A c \in Callers : cpc[c] = "idle"
    /\ ops < MaxReports
    /\ ops' = ops + 1
    /\ ev' = [ev EXCEPT ![t] = [cmd |-> IF raw THEN "!levelcheckraw" ELSE "!levelcheck",
                                chan |-> "c1", author |-> "u1", text |-> ""]]
    /\ IF battlenet_auth
         THEN /\ pc' = [pc EXCEPT ![t] = "names_lock"]
              /\ rep' = [rep EXCEPT ![t] = [NoReport EXCEPT !.use_insults = ~raw]]
         ELSE /\ pc' = [pc EXCEPT ![t] = "report_say"]
              /\ rep' = [rep EXCEPT ![t] =
                           [NoReport EXCEPT !.use_insults = ~raw,
                                            !.response = PlainResponse("Battle.net API not configured.")]]
    /\ UNCHANGED <<accepted, asm, now, authVars, storeVars, cfgVars, turn, tracked, fres>>

\* names.is_empty()
is_empty_never(names) == FALSE
is_empty(names) == names = <<>>

\* let names = { let conn = self.db.lock().await; .. }: the guard `conn` is
\* dropped at the end of the block, before the fetches are started
names_block_guard_kept(t) == Some(t)
names_block_guard(t) == None

\* the names are read under the store lock (an error reads as no names); with
\* none the handler answers; else every fetch is started and joined
LevelcheckNames(t) ==
    /\ pc[t] = "names_lock"
    /\ DbLockFree
    /\ dbLock' = names_block_guard(t)
    /\ \E dbok \in BOOLEAN :
         LET names == IF dbok THEN get_tracked_characters(tracked) ELSE <<>>
             fibers == 1..Len(names)
         IN  IF is_empty(names)
               THEN /\ rep' = [rep EXCEPT ![t].response = PlainResponse("No characters tracked.")]
                    /\ pc' = [pc EXCEPT ![t] = "report_say"]
                    /\ UNCHANGED <<cpc, cret, cstart, fres>>
               ELSE /\ rep' = [rep EXCEPT ![t].names = names]
                    /\ pc' = [pc EXCEPT ![t] = "fetching"]
                    /\ fres' = [c \in Callers |->
                                  IF c \in fibers THEN [NoFetch EXCEPT !.arg = names[c]]
                                  ELSE fres[c]]
                    /\ cpc' = [c \in Callers |->
                                 IF c \in fibers
                                   THEN IF battlenet_auth THEN "lock" ELSE "done"
                                   ELSE cpc[c]]
                    /\ cret' = [c \in Callers |->
                                  IF c \in fibers
                                    THEN IF battlenet_auth THEN NoRet
                                         ELSE RetErr("Battle.net not configured", "config")
                                    ELSE cret[c]]
                    /\ cstart' = [c \in Callers |->
                                    IF c \in fibers
                                      THEN [expired |-> is_expired(auth, now),
                                            afterReturn |-> FALSE]
                                      ELSE cstart[c]]
    /\ UNCHANGED <<accepted, asm, now, ops, battlenet_auth, auth, authLock, storeVars, llama_api_url,
                   config, written, ev, turn, tracked>>

\* join_all returned: the i-th result is the i-th fetch's; partition and sort.
\* With insults wanted and an inference URL the system prompt is read next,
\* else every insult is None and the response is sent
LevelcheckGather(t) ==
    /\ pc[t] = "fetching"
    /\ \A c \in 1..Len(rep[t].names) : cpc[c] = "fetched"
    /\ LET names == rep[t].names
           results == join_all(fres, Len(names))
           parts == partition(names, results)
           entries == sort_by_level(parts.entries)
           errors == parts.errors
           insults == [i \in 1..Len(entries) |-> None]
       IN  IF rep[t].use_insults /\ llama_api_url
             THEN /\ rep' = [rep EXCEPT ![t].results = results, ![t].entries = entries,
                                        ![t].errors = errors]
                  /\ pc' = [pc EXCEPT ![t] = "prompt_lock"]
             ELSE /\ rep' = [rep EXCEPT ![t].results = results, ![t].entries = entries,
                                        ![t].errors = errors,
                                        ![t].response = render(entries, insults, errors)]
                  /\ pc' = [pc EXCEPT ![t] = "report_say"]
    /\ cpc' = [c \in Callers |-> IF c \in 1..Len(rep[t].names) THEN "idle" ELSE cpc[c]]
    /\ fres' = [c \in Callers |-> IF c \in 1..Len(rep[t].names) THEN NoFetch ELSE fres[c]]
    /\ UNCHANGED <<accepted, asm, now, ops, battlenet_auth, auth, authLock, cret, cstart, storeVars, cfgVars,
                   ev, turn, tracked>>

\* the system prompt is read under the store lock; a one-shot call is started
\* for every entry and they are joined (at once when there is no entry)
LevelcheckPrompt(t) ==
    /\ pc[t] = "prompt_lock"
    /\ DbLockFree
    /\ LET entries == rep[t].entries
           calls == [i \in 1..Len(entries) |->
                       IF llama_api_url THEN OneShot("post", entries[i], None)
                       ELSE OneShot("done", entries[i], None)]
       IN  IF entries = <<>>
             THEN /\ rep' = [rep EXCEPT ![t].response = render(entries, <<>>, rep[t].errors)]
                  /\ pc' = [pc EXCEPT ![t] = "report_say"]
             ELSE /\ rep' = [rep EXCEPT ![t].insults = calls]
                  /\ pc' = [pc EXCEPT ![t] = "insulting"]
    /\ UNCHANGED <<accepted, asm, now, ops, authVars, storeVars, cfgVars, ev, turn, tracked, fres>>

\* a one-shot call's .send().await returned: an error or a non-success status
\* ends it with Err, else its body is read
InsultSent(t, i) ==
    /\ pc[t] = "insulting"
    /\ i \in 1..Len(rep[t].insults)
    /\ rep[t].insults[i].st = "post"
    /\ \/ rep' = [rep EXCEPT ![t].insults[i].st = "done"]
       \/ rep' = [rep EXCEPT ![t].insults[i].st = "body"]
    /\ UNCHANGED <<accepted, asm, now, ops, authVars, storeVars, cfgVars, taskVars, tracked, fres>>

\* a one-shot call's response.json().await returned: a parse error or no choice
\* ends it with Err, else the first choice's content is its result
InsultParsed(t, i) ==
    /\ pc[t] = "insulting"
    /\ i \in 1..Len(rep[t].insults)
    /\ rep[t].insults[i].st = "body"
    /\ \/ rep' = [rep EXCEPT ![t].insults[i].st = "done"]
       \/ \E choices \in ChoiceLists(InsultTexts) :
            LET r == first_choice(choices)
            IN  rep' = [rep EXCEPT ![t].insults[i].st = "done",
                                   ![t].insults[i].text =
                                       IF r.kind = "ok" THEN Some(r.reply) ELSE None]
    /\ UNCHANGED <<accepted, asm, now, ops, authVars, storeVars, cfgVars, taskVars, tracked, fres>>

\* join_all returned: r.ok() of every call, in the order of the entries; the
\* response is rendered and sent
LevelcheckRender(t) ==
    /\ pc[t] = "insulting"
    /\ \A i \in 1..Len(rep[t].insults) : rep[t].insults[i].st = "done"
    /\ rep' = [rep EXCEPT ![t].response =
                 render(rep[t].entries,
                        InsultResults(join_all(rep[t].insults, Len(rep[t].insults))),
                        rep[t].errors)]
    /\ pc' = [pc EXCEPT ![t] = "report_say"]
    /\ UNCHANGED <<accepted, asm, now, ops, authVars, storeVars, cfgVars, ev, turn, tracked, fres>>

\* msg.channel_id.say(..).await returned (an error is only logged)
LevelcheckSaid(t) ==
    /\ pc[t] = "report_say"
    /\ pc' = [pc EXCEPT ![t] = "idle"]
    /\ ev' = [ev EXCEPT ![t] = NoEvent]
    /\ rep' = [rep EXCEPT ![t] = NoReport]
    /\ UNCHANGED <<accepted, asm, now, ops, authVars, storeVars, cfgVars, turn, tracked, fres>>

InitReport ==
    /\ now = 0
    /\ ops = 0
    /\ battlenet_auth \in BOOLEAN
    /\ auth = BattleNetAuth_new
    /\ authLock = None
    /\ cpc = [c \in Callers |-> "idle"]
    /\ cret = [c \in Callers |-> NoRet]
    /\ cstart = [c \in Callers |-> NoStart]
    /\ InitStoreEmpty
    /\ InitIdle
    /\ tracked \in TrackedTables
    /\ llama_api_url \in BOOLEAN
    /\ config = init_config(EmptyConfig)

NextReport ==
    \/ \E t \in Tasks, raw \in BOOLEAN : Levelcheck(t, raw)
    \/ \E t \in Tasks : LevelcheckNames(t)
    \/ \E c \in Callers : TokenLocked(c)
    \/ \E c \in Callers : TokenSent(c)
    \/ \E c \in Callers : TokenParsed(c)
    \/ \E c \in Callers : FetchToken(c)
    \/ \E c \in Callers : FetchSent(c)
    \/ \E c \in Callers : FetchParsed(c)
    \/ \E t \in Tasks : LevelcheckGather(t)
    \/ \E t \in Tasks : LevelcheckPrompt(t)
    \/ \E t \in Tasks, i \in Callers : InsultSent(t, i)
    \/ \E t \in Tasks, i \in Callers : InsultParsed(t, i)
    \/ \E t \in Tasks : LevelcheckRender(t)
    \/ \E t \in Tasks : LevelcheckSaid(t)

SpecReport == InitReport /\ [][NextReport]_vars

\* ------------------------------------------------------ !levelcheck: claims
\* the report has been partitioned: the fetches of all names were joined
Partitioned(t) ==
    /\ rep[t].names # <<>>
    /\ pc[t] \in {"prompt_lock", "insulting"} \/ (pc[t] = "report_say" /\ rep[t].response.kind = "report")
CountIn(s, P(_)) == Cardinality({i \in 1..Len(s) : P(s[i])})

\* C2: for every non-empty list of tracked names and every combination of fetch
\* outcomes, each input name yields exactly one entry or exactly one error, and
\* the number of entries plus the number of errors is the number of names.
C2_PartitionCoversNames ==
    \A t \in Tasks :
        Partitioned(t) =>
            /\ Len(rep[t].entries) + Len(rep[t].errors) = Len(rep[t].names)
            /\ \A i \in 1..Len(rep[t].names) :
                 LET n == rep[t].names[i]
                 IN  CountIn(rep[t].entries, LAMBDA e : e.name = ApiName(to_lowercase(n)))
                       + CountIn(rep[t].errors, LAMBDA e : e.name = n) = 1

C2_Witness ==
    \E t \in Tasks :
        /\ Partitioned(t)
        /\ Len(rep[t].names) >= 2
        /\ rep[t].entries # <<>>
        /\ \E i \in 1..Len(rep[t].errors) : rep[t].errors[i].err = "not found on Nightslayer"

\* the place of the input name whose fetch made entry e
NameIndex(names, e) == CHOOSE i \in 1..Len(names) : ApiName(to_lowercase(names[i])) = e.name

\* C13: the entries are in level-descending order, entries of equal level keep
\* the order of their names in the input list, whatever the order in which the
\* fetches completed.
C13_SortedStable ==
    \A t \in Tasks :
        Partitioned(t) =>
            \A i, j \in 1..Len(rep[t].entries) :
                i < j =>
                    /\ rep[t].entries[i].level >= rep[t].entries[j].level
                    /\ rep[t].entries[i].level = rep[t].entries[j].level =>
                          NameIndex(rep[t].names, rep[t].entries[i])
                            < NameIndex(rep[t].names, rep[t].entries[j])

C13_Witness ==
    \E t \in Tasks :
        /\ Partitioned(t)
        /\ Len(rep[t].entries) >= 2
        /\ rep[t].entries[1].level = rep[t].entries[2].level
        /\ rep[t].results[1].seq > rep[t].results[2].seq

\* the report with its insults is rendered and being sent
Annotated(t) ==
    pc[t] = "report_say" /\ rep[t].response.kind = "report" /\ rep[t].insults # <<>>

\* C14: both gathers keep the index correspondence under every interleaving: the
\* i-th fetch result is the one of the i-th name and lands in the entry or the
\* error of that name, and the i-th rendered entry line carries the result of the
\* one-shot call that was made for the i-th sorted entry.
C14_GathersKeepIndex ==
    \A t \in Tasks :
        /\ Partitioned(t) =>
              \A i \in 1..Len(rep[t].names) :
                  LET r == rep[t].results[i]
                      n == rep[t].names[i]
                  IN  /\ r.arg = n
                      /\ r.kind = "ok" =>
                            \E j \in 1..Len(rep[t].entries) :
                                /\ rep[t].entries[j] = Entry(r)
                                /\ r.name = ApiName(to_lowercase(n))
                      /\ r.kind = "err" =>
                            \E j \in 1..Len(rep[t].errors) :
                                rep[t].errors[j] = ErrorLine(n, r.err)
        /\ Annotated(t) =>
              /\ Len(rep[t].insults) = Len(rep[t].entries)
              /\ \A i \in 1..Len(rep[t].entries) :
                    LET line == rep[t].response.lines[i]
                        call == rep[t].insults[i]
                    IN  /\ call.of = rep[t].entries[i]
                        /\ line.name = call.of.name
                        /\ line.level = call.of.level
                        /\ line.desc = call.of.desc
                        /\ line.insult = IF IsSome(call.text) THEN Some(trim(Unwrap(call.text)))
                                          ELSE None

C14_Witness ==
    \E t \in Tasks :
        /\ Annotated(t)
        /\ Len(rep[t].entries) >= 2
        /\ rep[t].results[1].seq > rep[t].results[2].seq
        /\ rep[t].entries[1].name # ApiName(to_lowercase(rep[t].names[1]))
        /\ rep[t].response.lines[1].insult = None
        /\ rep[t].response.lines[2].insult # None

\* the fetches of the report's names have all completed
Fetched(t) == pc[t] = "fetching" /\ \A c \in 1..Len(rep[t].names) : cpc[c] = "fetched"
\* the report with its lines is being sent
Reported(t) == pc[t] = "report_say" /\ rep[t].response.kind = "report"
\* insults were asked for and can be had
WantsInsults(t) == ev[t].cmd = "!levelcheck" /\ llama_api_url

ReportShape(t) ==
    LET entries == rep[t].entries
        errors == rep[t].errors
        lines == rep[t].response.lines
    IN  /\ Len(lines) = Len(entries) + Len(errors)
        /\ \A i \in 1..Len(entries) :
              /\ lines[i].kind = "entry"
              /\ Entry(lines[i]) = entries[i]
              /\ IF WantsInsults(t)
                   THEN /\ Len(rep[t].insults) = Len(entries)
                        /\ lines[i].insult = None <=> rep[t].insults[i].text = None
                   ELSE lines[i].insult = None
        /\ \A j \in 1..Len(errors) :
              lines[Len(entries) + j] = [kind |-> "error", text |-> errors[j]]

\* C15: once the fetches of a non-empty name list have completed the report is
\* produced whatever failed: the handler goes on to sending a report of one line per
\* entry followed by one line per error; a failed one-shot call leaves only its own
\* entry without insult; one-shot calls are made only for "!levelcheck" with an
\* inference URL, one per entry.
C15_ReportAlwaysProduced ==
    /\ [](\A t \in Tasks :
            /\ Reported(t) => ReportShape(t)
            /\ rep[t].insults # <<>> =>
                  WantsInsults(t) /\ Len(rep[t].insults) = Len(rep[t].entries))
    /\ [][\A t \in Tasks :
            /\ (Fetched(t) /\ pc'[t] # "fetching") => Partitioned(t)'
            /\ (Partitioned(t) /\ ~Reported(t)) => Partitioned(t)']_vars

C15_Witness ==
    \E t \in Tasks :
        /\ Reported(t)
        /\ Len(rep[t].entries) >= 2
        /\ rep[t].response.lines[1].insult # None
        /\ rep[t].response.lines[2].insult = None
        /\ rep[t].insults[2].st = "done"

\* the report operation has its names: the handler is past the read of the
\* tracked names
NamesRead(t) ==
    /\ pc[t] \notin {"idle", "names_lock"}
    /\ rep[t].response # PlainResponse("Battle.net API not configured.")
\* a credential exchange, a profile request or a one-shot call is in flight or
\* has returned
RequestIssued ==
    \/ \E c \in Callers : cpc[c] \notin {"idle", "lock"}
    \/ \E t \in Tasks : rep[t].insults # <<>>
    \/ auth # BattleNetAuth_new

\* C16: with no tracked name the report short-circuits with the nothing-tracked
\* result: no entry, no error, and no credential exchange, profile request or
\* inference request is ever issued.
C16_EmptyShortCircuits ==
    tracked = {} =>
        /\ ~RequestIssued
        /\ \A t \in Tasks :
              NamesRead(t) =>
                  /\ pc[t] = "report_say"
                  /\ rep[t].response = PlainResponse("No characters tracked.")
                  /\ rep[t].entries = <<>> /\ rep[t].errors = <<>>

C16_Witness ==
    \E t \in Tasks :
        /\ tracked = {}
        /\ NamesRead(t)
        /\ ev[t].cmd = "!levelcheck"
        /\ llama_api_url
        /\ rep[t].response = PlainResponse("No characters tracked.")

\* ------------------------------------------ !addcharacter and !removecharacter
\* the fetch of an !addcharacter runs in the last caller slot; the reports of a
\* specification that has both track fewer names than there are slots
AddSlot == NumCallers
\* the arguments tried: none, and a name in lower case
AddArgs == {"", "ann"}
RemoveArgs == {"", "ann"}

\* "!addcharacter <name>" arrives: without a name the usage is sent, without
\* credentials "not configured"; else fetch_wow_character(name) is awaited
AddCharacter(t, name) ==
    /\ FreeTask(t)
    /\ ops < MaxChatEvents
    /\ ops' = ops + 1
    /\ cpc[AddSlot] = "idle"
    /\ ev' = [ev EXCEPT ![t] = [cmd |-> "!addcharacter", chan |-> "c1", author |-> "u1",
                                text |-> name, res |-> NoFetch]]
    /\ IF name = "" \/ ~battlenet_auth
         THEN /\ pc' = [pc EXCEPT ![t] = "add_say"]
              /\ UNCHANGED <<cpc, cret, cstart, fres>>
         ELSE /\ pc' = [pc EXCEPT ![t] = "add_fetching"]
              /\ fres' = [fres EXCEPT ![AddSlot] = [NoFetch EXCEPT !.arg = name]]
              /\ cpc' = [cpc EXCEPT ![AddSlot] = "lock"]
              /\ cret' = [cret EXCEPT ![AddSlot] = NoRet]
              /\ cstart' = [cstart EXCEPT ![AddSlot] =
                              [expired |-> is_expired(auth, now), afterReturn |-> FALSE]]
    /\ UNCHANGED <<now, battlenet_auth, auth, authLock, storeVars, cfgVars, turn, tracked, rep, asm,
                   accepted>>

\* fetch_wow_character returned: Err(e) is sent as it is; with Ok(character)
\* the store lock is awaited
AddFetched(t) ==
    /\ pc[t] = "add_fetching"
    /\ cpc[AddSlot] = "fetched"
    /\ ev' = [ev EXCEPT ![t].res = fres[AddSlot]]
    /\ pc' = [pc EXCEPT ![t] = IF fres[AddSlot].kind = "ok" THEN "add_lock" ELSE "add_say"]
    /\ cpc' = [cpc EXCEPT ![AddSlot] = "idle"]
    /\ fres' = [fres EXCEPT ![AddSlot] = NoFetch]
    /\ UNCHANGED <<now, ops, battlenet_auth, auth, authLock, cret, cstart, storeVars, cfgVars, turn,
                   tracked, rep, asm, accepted>>

\* add_tracked_character(character.name, author) under the store lock: Ok(true),
\* Ok(false) or Err; in each arm the guard `conn` lives across the say
AddStore(t) ==
    /\ pc[t] = "add_lock"
    /\ DbLockFree
    /\ \/ tracked' = add_tracked_character(tracked, ev[t].res.name, ev[t].author).tbl
       \/ UNCHANGED tracked
    /\ dbLock' = Some(t)
    /\ pc' = [pc EXCEPT ![t] = "add_saved_say"]
    /\ UNCHANGED <<now, ops, authVars, storeVars, llama_api_url, config, written, ev, turn, fres, rep,
                   asm, accepted>>

\* say(..).await returned; the handler returns and a guard it holds is dropped
AddSaid(t) ==
    /\ pc[t] \in {"add_say", "add_saved_say"}
    /\ pc' = [pc EXCEPT ![t] = "idle"]
    /\ ev' = [ev EXCEPT ![t] = NoEvent]
    /\ dbLock' = IF pc[t] = "add_saved_say" THEN None ELSE dbLock
    /\ UNCHANGED <<now, ops, authVars, storeVars, llama_api_url, config, written, turn, reportVars,
                   asm, accepted>>

\* "!removecharacter <name>" arrives: without a name the usage is sent, else
\* the store lock is awaited
RemoveCharacter(t, name) ==
    /\ FreeTask(t)
    /\ ops < MaxChatEvents
    /\ ops' = ops + 1
    /\ ev' = [ev EXCEPT ![t] = [cmd |-> "!removecharacter", chan |-> "c1", author |-> "u1",
                                text |-> name]]
    /\ pc' = [pc EXCEPT ![t] = IF name = "" THEN "remove_usage_say" ELSE "remove_lock"]
    /\ UNCHANGED <<now, authVars, storeVars, cfgVars, turn, reportVars, asm, accepted>>

\* remove_tracked_character(name) under the store lock: Ok(true), Ok(false) or
\* Err; in each arm the guard `conn` lives across the say
RemoveRun(t) ==
    /\ pc[t] = "remove_lock"
    /\ DbLockFree
    /\ \/ tracked' = remove_tracked_character(tracked, ev[t].text).tbl
       \/ UNCHANGED tracked
    /\ dbLock' = Some(t)
    /\ pc' = [pc EXCEPT ![t] = "remove_say"]
    /\ UNCHANGED <<now, ops, authVars, storeVars, llama_api_url, config, written, ev, turn, fres, rep,
                   asm, accepted>>

\* say(..).await returned; the handler returns and a guard it holds is dropped
RemoveSaid(t) ==
    /\ pc[t] \in {"remove_usage_say", "remove_say"}
    /\ pc' = [pc EXCEPT ![t] = "idle"]
    /\ ev' = [ev EXCEPT ![t] = NoEvent]
    /\ dbLock' = IF pc[t] = "remove_say" THEN None ELSE dbLock
    /\ UNCHANGED <<now, ops, authVars, storeVars, llama_api_url, config, written, turn, reportVars,
                   asm, accepted>>

\* ---------------------------------- the store under a sequence of operations
\* db::store_message on the connection
DbStore(k, role, content) ==
    /\ ops < MaxStores
    /\ ops' = ops + 1
    /\ messages' = store_message(messages, next_id, k, role, content, now)
    /\ next_id' = next_id + 1
    /\ log' = [log EXCEPT ![k] = Append(@, [role |-> role, content |-> content])]
    /\ dbRet' = NoDbRet
    /\ UNCHANGED <<accepted, asm, reportVars, now, authVars, cfgVars, taskVars>>

\* db::clear_messages on the connection
DbClear(k) ==
    /\ messages' = clear_messages(messages, k)
    /\ log' = [log EXCEPT ![k] = <<>>]
    /\ dbRet' = [op |-> "clear_messages", key |-> k, ret |-> clear_messages_count(messages, k),
                 before |-> messages]
    /\ UNCHANGED <<accepted, asm, reportVars, now, ops, authVars, next_id, cfgVars, taskVars>>

\* db::get_recent_messages on the connection
DbRead(k, limit) ==
    /\ dbRet' = [op |-> "get_recent_messages", key |-> k, limit |-> limit,
                 rows |-> get_recent_messages(messages, k, limit)]
    /\ UNCHANGED <<accepted, asm, reportVars, now, ops, authVars, messages, next_id, log, cfgVars, taskVars>>

DbTick ==
    /\ now < MaxTime
    /\ now' = now + 1
    /\ dbRet' = NoDbRet
    /\ UNCHANGED <<accepted, asm, reportVars, ops, authVars, messages, next_id, log, cfgVars, taskVars>>

InitDb ==
    /\ now = 0
    /\ battlenet_auth = FALSE
    /\ auth = BattleNetAuth_new
    /\ authLock = None
    /\ cpc = [c \in Callers |-> "idle"]
    /\ cret = [c \in Callers |-> NoRet]
    /\ cstart = [c \in Callers |-> NoStart]
    /\ ops = 0
    /\ InitStoreEmpty \/ InitStoreOld
    /\ InitIdle
    /\ tracked = {}
    /\ llama_api_url = FALSE
    /\ config = init_config(EmptyConfig)

NextDb ==
    \/ \E k \in DbKeys, role \in Roles, content \in Contents : DbStore(k, role, content)
    \/ \E k \in DbKeys : DbClear(k)
    \/ \E k \in DbKeys, limit \in Limits : DbRead(k, limit)
    \/ DbTick

SpecDb == InitDb /\ [][NextDb]_vars

\* ----------------------------------------------- conversation store: claims
Min(a, b) == IF a <= b THEN a ELSE b
\* the last n elements of s
LastN(s, n) == SubSeq(s, Len(s) - Min(n, Len(s)) + 1, Len(s))

\* C9: get_recent_messages returns the key's messages in insertion order, oldest
\* first, each with the role and content it was stored with (the newest `limit`
\* of them).
C9_ReadInInsertionOrder ==
    dbRet.op = "get_recent_messages" => dbRet.rows = LastN(log[dbRet.key], dbRet.limit)

C9_Witness ==
    /\ dbRet.op = "get_recent_messages"
    /\ Len(dbRet.rows) >= 2
    /\ dbRet.rows[1] # dbRet.rows[2]
    /\ \E r, q \in messages : r.timestamp # q.timestamp /\ r.channel_id = q.channel_id
                                /\ r.channel_id = dbRet.key

\* C10: when a key holds more than N messages, get_recent_messages(key, N)
\* returns exactly N of them, the first being the (total - N)-th inserted
\* (0-based) and the last the newest; ask_llama reads with N = HISTORY_LIMIT = 10.
C10_WindowIsNewestN ==
    (dbRet.op = "get_recent_messages" /\ Len(log[dbRet.key]) > dbRet.limit) =>
        LET total == Len(log[dbRet.key])
            N == dbRet.limit
        IN  /\ Len(dbRet.rows) = N
            /\ dbRet.rows[1] = log[dbRet.key][(total - N) + 1]
            /\ dbRet.rows[N] = log[dbRet.key][total]

C10_Witness ==
    /\ dbRet.op = "get_recent_messages"
    /\ dbRet.limit = HISTORY_LIMIT
    /\ HISTORY_LIMIT = 10
    /\ Len(log[dbRet.key]) > HISTORY_LIMIT + 1

\* ------------------------------ the tracked names under a sequence of calls
TrackInputs == {"Ann", "ann", "bob", "E'va", "e'va"}

\* db::add_tracked_character on the connection
DbAdd(name, added_by) ==
    /\ LET r == add_tracked_character(tracked, name, added_by)
       IN  /\ tracked' = r.tbl
           /\ dbRet' = [op |-> "add_tracked_character", name |-> name, added_by |-> added_by,
                        ret |-> r.ret, before |-> tracked]
    /\ UNCHANGED <<now, ops, authVars, messages, next_id, log, cfgVars, taskVars, fres, rep, asm,
                   accepted>>

\* db::remove_tracked_character on the connection
DbRemove(name) ==
    /\ LET r == remove_tracked_character(tracked, name)
       IN  /\ tracked' = r.tbl
           /\ dbRet' = [op |-> "remove_tracked_character", name |-> name, added_by |-> "",
                        ret |-> r.ret, before |-> tracked]
    /\ UNCHANGED <<now, ops, authVars, messages, next_id, log, cfgVars, taskVars, fres, rep, asm,
                   accepted>>

InitTrack ==
    /\ now = 0
    /\ battlenet_auth = FALSE
    /\ auth = BattleNetAuth_new
    /\ authLock = None
    /\ cpc = [c \in Callers |-> "idle"]
    /\ cret = [c \in Callers |-> NoRet]
    /\ cstart = [c \in Callers |-> NoStart]
    /\ ops = 0
    /\ InitStoreEmpty
    /\ InitIdle
    /\ tracked = {}
    /\ llama_api_url = FALSE
    /\ config = init_config(EmptyConfig)

NextTrack ==
    \/ \E name \in TrackInputs, added_by \in Authors : DbAdd(name, added_by)
    \/ \E name \in TrackInputs : DbRemove(name)

SpecTrack == InitTrack /\ [][NextTrack]_vars

\* two names are equal ignoring case
EqIgnoreCase(a, b) == to_lowercase(a) = to_lowercase(b)
TrackedIgnoringCase(tbl, name) == \E r \in tbl : EqIgnoreCase(r.name, name)

\* C19: after any sequence of add and remove calls no two tracked names are
\* equal ignoring case; add returns true exactly when no name equal ignoring
\* case was tracked, and a duplicate add leaves the table as it was.
C19_NoCaseDuplicates ==
    /\ \A r, q \in tracked : r # q => ~EqIgnoreCase(r.name, q.name)
    /\ dbRet.op = "add_tracked_character" =>
          /\ dbRet.ret = ~TrackedIgnoringCase(dbRet.before, dbRet.name)
          /\ ~dbRet.ret => tracked = dbRet.before

\* C20: remove returns true exactly when a name equal ignoring case was
\* tracked; afterwards no such name is tracked and every other row is as before.
C20_RemoveIgnoresCase ==
    dbRet.op = "remove_tracked_character" =>
        /\ dbRet.ret = TrackedIgnoringCase(dbRet.before, dbRet.name)
        /\ ~TrackedIgnoringCase(tracked, dbRet.name)
        /\ tracked = {r \in dbRet.before : ~EqIgnoreCase(r.name, dbRet.name)}

\* ------------------------------ all three tables under a sequence of calls
\* the values a key may be set to
ConfigValues(key) ==
    CASE key = "system_prompt" -> {"", "P"}
      [] key = "response_cap" -> {to_string(7), to_string(500)}
      [] OTHER -> {"channel", "user"}

\* db::set_config on the connection
DbSetConfig(key, value) ==
    /\ ops < MaxStores
    /\ ops' = ops + 1
    /\ config' = set_config(config, key, value)
    /\ written' = [written EXCEPT ![key] = Some(value)]
    /\ dbRet' = [op |-> "set_config", key |-> key, before |-> config]
    /\ UNCHANGED <<now, authVars, messages, next_id, log, llama_api_url, dbLock, taskVars,
                   reportVars, asm, accepted>>

\* db::get_config on the connection
DbGetConfig(key) ==
    /\ dbRet' = [op |-> "get_config", key |-> key, ret |-> get_config(config, key)]
    /\ UNCHANGED <<now, ops, authVars, messages, next_id, log, cfgVars, taskVars, reportVars, asm,
                   accepted>>

InitTables ==
    /\ now = 0
    /\ battlenet_auth = FALSE
    /\ auth = BattleNetAuth_new
    /\ authLock = None
    /\ cpc = [c \in Callers |-> "idle"]
    /\ cret = [c \in Callers |-> NoRet]
    /\ cstart = [c \in Callers |-> NoStart]
    /\ ops = 0
    /\ InitStoreEmpty
    /\ InitIdle
    /\ tracked = {}
    /\ llama_api_url = FALSE
    /\ config = init_config(EmptyConfig)

NextTables ==
    \/ \E key \in ConfigKeys : \E value \in ConfigValues(key) : DbSetConfig(key, value)
    \/ \E key \in ConfigKeys : DbGetConfig(key)
    \/ \E k \in DbKeys, role \in Roles : DbStore(k, role, "a")
    \/ \E k \in DbKeys : DbClear(k)
    \/ \E name \in {"Ann", "bob"} : DbAdd(name, "u1")
    \/ \E name \in {"Ann", "bob"} : DbRemove(name)

SpecTables == InitTables /\ [][NextTables]_vars

\* the value the last set_config of a key left, the value db::init left if none
LastWritten(key) == IF IsSome(written[key]) THEN written[key] ELSE init_config(EmptyConfig)[key]

\* C21: the config table holds one value per key and the last writer wins:
\* get_config(k) returns the value of the most recent set_config(k, v),
\* set_config on one key leaves every other key's value unchanged, and no
\* operation removes a key.
C21_LastWriterWins ==
    /\ [](/\ \A k \in ConfigKeys : get_config(config, k) = LastWritten(k)
          /\ dbRet.op = "get_config" => dbRet.ret = LastWritten(dbRet.key)
          /\ dbRet.op = "set_config" =>
                \A k \in ConfigKeys \ {dbRet.key} : config[k] = dbRet.before[k])
    /\ [][\A k \in ConfigKeys : IsSome(config[k]) => IsSome(config'[k])]_vars

C21_Witness ==
    /\ dbRet.op = "get_config"
    /\ dbRet.key = "system_prompt"
    /\ dbRet.ret = Some("P")
    /\ written["context_mode:c1"] = Some("user")

\* C23: clear_messages(key) deletes exactly the messages stored under the key
\* and returns their count, and leaves the other keys' messages, the config and
\* the tracked names unchanged; a stored message is never changed, and is
\* removed only together with all messages of its key.
C23_ClearDeletesOwnKey ==
    /\ [](dbRet.op = "clear_messages" =>
            /\ messages = {r \in dbRet.before : r.channel_id # dbRet.key}
            /\ dbRet.ret = Cardinality({r \in dbRet.before : r.channel_id = dbRet.key}))
    /\ [][\A r \in messages :
            \/ r \in messages'
            \/ /\ dbRet'.op = "clear_messages" /\ dbRet'.key = r.channel_id
               /\ \A q \in messages' : q.id # r.id /\ q.channel_id # r.channel_id]_vars
    /\ [][\A q \in messages' \ messages : \A r \in messages : q.id > r.id]_vars
    /\ [][dbRet'.op = "clear_messages" => (config' = config /\ tracked' = tracked)]_vars

C23_Witness ==
    /\ dbRet.op = "clear_messages"
    /\ dbRet.ret = 1
    /\ dbRet.key = UserKey("c1", "u1")
    /\ \E r \in messages : r.channel_id = ChannelKey("c1")
    /\ tracked # {}
    /\ IsSome(config["system_prompt"])

\* ----------------------------------------- the prompt assembled from a store
\* the assembly of ask_llama (system prompt, history window, directive) applied
\* to the store as it stands, under key k
PromptBuild(k) ==
    /\ asm' = [op |-> "build", key |-> k, msgs |-> build_messages(config, messages, k)]
    /\ UNCHANGED <<now, ops, authVars, storeVars, cfgVars, taskVars, reportVars, accepted>>

InitPrompt ==
    /\ now = 0
    /\ battlenet_auth = FALSE
    /\ auth = BattleNetAuth_new
    /\ authLock = None
    /\ cpc = [c \in Callers |-> "idle"]
    /\ cret = [c \in Callers |-> NoRet]
    /\ cstart = [c \in Callers |-> NoStart]
    /\ ops = 0
    /\ InitStoreEmpty \/ InitStoreOld
    /\ InitIdle
    /\ tracked = {}
    /\ llama_api_url = TRUE
    /\ config \in {init_config(EmptyConfig), set_config(init_config(EmptyConfig), "response_cap", to_string(7))}

NextPrompt ==
    \/ \E k \in DbKeys, role \in Roles, content \in Contents : DbStore(k, role, content)
    \/ \E k \in DbKeys : PromptBuild(k)

SpecPrompt == InitPrompt /\ [][NextPrompt]_vars

\* C11: in an assembled prompt the directive is on the last message if and only
\* if that message has role user, and on no other message: a prompt ending in an
\* assistant or system message carries no directive anywhere.
C11_DirectiveOnlyOnFinalUser ==
    asm.op = "build" =>
        LET n == Len(asm.msgs)
        IN  \A i \in 1..n :
              IsSome(asm.msgs[i].directive) <=> (i = n /\ asm.msgs[n].role = "user")

C11_Witness ==
    /\ asm.op = "build"
    /\ asm.msgs[Len(asm.msgs)].role = "assistant"
    /\ \E i \in 1..Len(asm.msgs) : asm.msgs[i].role = "user"
    /\ \A i \in 1..Len(asm.msgs) : asm.msgs[i].directive = None
    /\ asm.key = UserKey("c1", "u1")

\* --------------------------------------- turns and !clear running concurrently
InitChat ==
    /\ now = 0
    /\ ops = 0
    /\ battlenet_auth = FALSE
    /\ auth = BattleNetAuth_new
    /\ authLock = None
    /\ cpc = [c \in Callers |-> "idle"]
    /\ cret = [c \in Callers |-> NoRet]
    /\ cstart = [c \in Callers |-> NoStart]
    /\ InitStoreEmpty \/ InitStoreOld
    /\ InitIdle
    /\ tracked = {}
    /\ llama_api_url \in BOOLEAN
    /\ config = init_config(EmptyConfig)

NextChat ==
    \/ \E t \in Tasks, chan \in Chans, m \in Mentions : Mention(t, chan, m[1], m[2])
    \/ \E t \in Tasks : Mentioned(t)
    \/ \E t \in Tasks : MentionKey(t)
    \/ \E t \in Tasks : AskAssemble(t)
    \/ \E t \in Tasks : AskSent(t)
    \/ \E t \in Tasks : AskParsed(t)
    \/ \E t \in Tasks : AskStoreReply(t)
    \/ \E t \in Tasks : MentionSaid(t)
    \/ \E t \in Tasks, chan \in Chans, author \in Authors : Clear(t, chan, author)
    \/ \E t \in Tasks : ClearRun(t)
    \/ \E t \in Tasks : ClearSaid(t)

SpecChat == InitChat /\ [][NextChat]_vars

\* a turn ended in an error: ask_llama returned Err and the reply is being sent
TurnFailed(t) == pc[t] = "say" /\ turn[t].res.kind = "err"
UserRowOf(t) ==
    [id |-> turn[t].uid, channel_id |-> turn[t].key, role |-> "user", content |-> ev[t].text]
HasRow(r) ==
    \E m \in messages : /\ m.id = r.id /\ m.channel_id = r.channel_id
                        /\ m.role = r.role /\ m.content = r.content

\* C3 as stated: whenever a turn ends in an error, whatever the cause, the user's
\* text of that turn is stored as a user-role message under the turn's key.
C3_FailedTurnStored ==
    \A t \in Tasks :
        TurnFailed(t) =>
            \E m \in messages : /\ m.channel_id = turn[t].key /\ m.role = "user"
                                /\ m.content = ev[t].text

NothingStoredErrors == {"not configured", "DB error storing user message"}

\* C3 amended: whenever a turn ends in an error other than "inference not
\* configured" or a failed write of the user message itself, the user's text was
\* stored as a user-role message under the turn's key before the request, and that
\* row is still stored unless the key was cleared since; in the two excepted cases
\* the turn stored nothing.
C3_FailedTurnStoredAfterWrite ==
    \A t \in Tasks :
        TurnFailed(t) =>
            IF turn[t].res.err \in NothingStoredErrors
              THEN turn[t].uid = 0
              ELSE /\ turn[t].uid # 0
                   /\ turn[t].wiped \/ HasRow(UserRowOf(t))

C3_Witness ==
    \E t \in Tasks :
        /\ TurnFailed(t)
        /\ turn[t].res.err = "Failed to reach llama.cpp"
        /\ ~turn[t].wiped
        /\ HasRow(UserRowOf(t))
        /\ \E u \in Tasks : pc[u] = "post" /\ turn[u].key = turn[t].key

\* the texts users sent: in this run, or in earlier runs (the rows found at start)
SentTexts == {m[2] : m \in Mentions} \cup {OldContents[i] : i \in 1..HISTORY_LIMIT}
\* the request of the turn is assembled (and sent, or answered)
Assembled(t) == pc[t] \in {"post", "body", "reply_lock"} \/ (pc[t] = "say" /\ turn[t].prompt # <<>>)

\* C12: the directive is never persisted: every stored user-role message holds
\* exactly the text the user sent (the row a turn inserted holds that turn's
\* text), and an assembled prompt carries the directive on its final message
\* only, never in the content of a history entry.
C12_DirectiveNeverStored ==
    /\ \A m \in messages :
          m.role = "user" => m.content \in SentTexts /\ m.content \notin Directed
    /\ \A t \in Tasks :
          /\ (turn[t].uid # 0 /\ ~turn[t].wiped) => HasRow(UserRowOf(t))
          /\ Assembled(t) =>
                \A i \in 1..Len(turn[t].prompt) :
                    /\ turn[t].prompt[i].content \notin Directed
                    /\ IsSome(turn[t].prompt[i].directive) => i = Len(turn[t].prompt)

C12_Witness ==
    \E t \in Tasks :
        /\ pc[t] = "post"
        /\ LET p == turn[t].prompt
           IN  /\ IsSome(p[Len(p)].directive)
               /\ \E i \in 1..(Len(p) - 1) :
                     /\ p[i].role = "user"
                     /\ \E m \in messages : m.id > HISTORY_LIMIT /\ m.id < turn[t].uid
                                             /\ m.content = p[i].content /\ m.role = "user"

\* the assistant row a turn at the second store call would insert
ReplyRowOf(t) ==
    [id |-> next_id, channel_id |-> turn[t].key, role |-> "assistant",
     content |-> turn[t].res.reply, timestamp |-> now]

\* C17: when the endpoint returned a reply, ask_llama stores it as an
\* assistant-role message under the key the turn's user message was stored under,
\* and returns Ok(reply) whether that write succeeded or failed.
C17_ReplyStoredAndReturned ==
    /\ [](\A t \in Tasks :
            pc[t] = "reply_lock" =>
                /\ turn[t].uid # 0
                /\ turn[t].wiped \/ HasRow(UserRowOf(t)))
    /\ [][\A t \in Tasks :
            (pc[t] = "reply_lock" /\ pc'[t] # "reply_lock") =>
                /\ pc'[t] = "say"
                /\ turn'[t].res = Ok(turn[t].res.reply)
                /\ \/ messages' = messages
                   \/ messages' = messages \cup {ReplyRowOf(t)}]_vars

C17_Witness ==
    \E t \in Tasks :
        /\ pc[t] = "say"
        /\ turn[t].res.kind = "ok"
        /\ HasRow(UserRowOf(t))
        /\ \E m \in messages :
              /\ m.id > turn[t].uid /\ m.channel_id = turn[t].key
              /\ m.role = "assistant" /\ m.content = turn[t].res.reply

\* ------------------------------------------ !cap and turns running concurrently
InitCap ==
    /\ now = 0
    /\ ops = 0
    /\ battlenet_auth = FALSE
    /\ auth = BattleNetAuth_new
    /\ authLock = None
    /\ cpc = [c \in Callers |-> "idle"]
    /\ cret = [c \in Callers |-> NoRet]
    /\ cstart = [c \in Callers |-> NoStart]
    /\ InitStoreEmpty
    /\ InitIdle
    /\ tracked = {}
    /\ llama_api_url = TRUE
    /\ config = init_config(EmptyConfig)

NextCap ==
    \/ \E t \in Tasks, arg \in CapArgs : Cap(t, arg)
    \/ \E t \in Tasks : CapView(t)
    \/ \E t \in Tasks : CapSet(t)
    \/ \E t \in Tasks : CapSetSaid(t)
    \/ \E t \in Tasks : CapSaid(t)
    \/ \E t \in Tasks, chan \in Chans, m \in Mentions : Mention(t, chan, m[1], m[2])
    \/ \E t \in Tasks : Mentioned(t)
    \/ \E t \in Tasks : MentionKey(t)
    \/ \E t \in Tasks : AskAssemble(t)
    \/ \E t \in Tasks : AskSent(t)
    \/ \E t \in Tasks : AskParsed(t)
    \/ \E t \in Tasks : AskStoreReply(t)
    \/ \E t \in Tasks : MentionSaid(t)

SpecCap == InitCap /\ [][NextCap]_vars

\* the arguments the claim names as rejected ("0", "501", "a") and as accepted
RejectedArgs == {<<0>>, <<5, 0, 1>>, <<97>>}
CapInForce == IF IsSome(accepted) THEN Unwrap(accepted) ELSE 10
LastOf(s) == s[Len(s)]

InitCtx ==
    /\ now = 0
    /\ ops = 0
    /\ battlenet_auth = FALSE
    /\ auth = BattleNetAuth_new
    /\ authLock = None
    /\ cpc = [c \in Callers |-> "idle"]
    /\ cret = [c \in Callers |-> NoRet]
    /\ cstart = [c \in Callers |-> NoStart]
    /\ InitStoreEmpty
    /\ InitIdle
    /\ tracked = {}
    /\ llama_api_url = TRUE
    /\ config \in {init_config(EmptyConfig),
                  set_context_mode(init_config(EmptyConfig), "c1", "user")}

NextCtx ==
    \/ \E t \in Tasks, chan \in Chans, mode \in {"channel", "user"} : Context(t, chan, "u1", mode)
    \/ \E t \in Tasks : ContextSet(t)
    \/ \E t \in Tasks : ContextSaid(t)
    \/ \E t \in Tasks, chan \in Chans, m \in {x \in Mentions : x[2] # ""} :
          Mention(t, chan, m[1], m[2])
    \/ \E t \in Tasks : Mentioned(t)
    \/ \E t \in Tasks : MentionKey(t)
    \/ \E t \in Tasks : AskAssemble(t)
    \/ \E t \in Tasks : AskSent(t)
    \/ \E t \in Tasks : AskParsed(t)
    \/ \E t \in Tasks : AskStoreReply(t)
    \/ \E t \in Tasks : MentionSaid(t)

SpecCtx == InitCtx /\ [][NextCtx]_vars

\* the turn leaves the resolution of its key
KeyResolved(t) == pc[t] = "key_lock" /\ pc'[t] # "key_lock"
StoredMode(chan) == config[ContextModeKey(chan)]
\* what is read under a key is what was stored under it (since its last clear)
ReadsOwnKey ==
    \A k \in Keys : get_recent_messages(messages, k, HISTORY_LIMIT) = LastN(log[k], HISTORY_LIMIT)
\* the prompt a turn assembles is the system prompt and the window of its key
PromptOfOwnKey(t) ==
    LET p == turn'[t].prompt
        h == LastN(log'[turn[t].key], HISTORY_LIMIT)
        sys == Len(p) - Len(h)
    IN  /\ sys \in {0, 1}
        /\ \A i \in 1..Len(h) : p[sys + i].role = h[i].role /\ p[sys + i].content = h[i].content
\* the rows a step inserts or deletes
Touched == (messages \ messages') \cup (messages' \ messages)

\* C22 as stated: histories are isolated by key; with context mode 'user' the
\* key of a turn is channel:participant, with any other or no stored mode it is
\* the channel id; a turn reads and writes the rows of its key only.
C22_IsolatedByMode ==
    /\ []ReadsOwnKey
    /\ [][\A t \in Tasks :
            /\ KeyResolved(t) =>
                  turn'[t].key = IF StoredMode(ev[t].chan) = Some("user")
                                   THEN UserKey(ev[t].chan, ev[t].author)
                                   ELSE ChannelKey(ev[t].chan)
            /\ (pc[t] = "ask_lock" /\ pc'[t] = "post") => PromptOfOwnKey(t)
            /\ (pc[t] \in {"ask_lock", "reply_lock"} /\ pc'[t] # pc[t]) =>
                  \A r \in Touched : r.channel_id = turn[t].key]_vars

\* C22, what the code does: the key is resolved once from the mode stored at
\* that moment; it is channel:participant when that read succeeds and the mode
\* is 'user', and the channel id when the mode is anything else or absent or
\* its read fails; a turn reads and writes the rows of its key only.
C22_IsolatedByModeRead ==
    /\ []ReadsOwnKey
    /\ [][\A t \in Tasks :
            /\ KeyResolved(t) =>
                  turn'[t].key = IF ~turn'[t].unread /\ StoredMode(ev[t].chan) = Some("user")
                                   THEN UserKey(ev[t].chan, ev[t].author)
                                   ELSE ChannelKey(ev[t].chan)
            /\ (pc[t] = "ask_lock" /\ pc'[t] = "post") => PromptOfOwnKey(t)
            /\ (pc[t] \in {"ask_lock", "reply_lock"} /\ pc'[t] # pc[t]) =>
                  \A r \in Touched : r.channel_id = turn[t].key]_vars

\* two participants' turns in one channel in mode 'user': each has stored its
\* text under its own key and each prompt holds its own participant's text only
C22_Witness ==
    /\ StoredMode("c1") = Some("user")
    /\ \E t, u \in Tasks :
          /\ pc[t] = "post" /\ pc[u] = "post"
          /\ turn[t].key = UserKey("c1", "u1") /\ turn[u].key = UserKey("c1", "u2")
          /\ turn[t].uid > turn[u].uid
          /\ HasRow(UserRowOf(t)) /\ HasRow(UserRowOf(u))
          /\ \A i \in 1..Len(turn[t].prompt) : turn[t].prompt[i].content # "b"
          /\ \A i \in 1..Len(turn[u].prompt) : turn[u].prompt[i].content # "a"

\* ------------------------------------------------------- store lock: claims
\* the task waits for a network call: a chat-platform call (mentions_me, say) or
\* an HTTP request or body read of its own or of the calls it joined
AwaitsNetwork(t) ==
    pc[t] \in {"mentions_me", "post", "body", "say", "clear_say", "fetching", "insulting",
               "report_say", "cap_say", "capset_say", "ctx_say", "add_fetching", "add_say",
               "add_saved_say", "remove_usage_say", "remove_say"}

\* C8: the store lock is never held while a network call is awaited, in every
\* handler and in ask_llama: a task that waits for an HTTP request or for a
\* chat-platform send does not hold the lock.
C8_NoNetworkUnderStoreLock ==
    \A t \in Tasks : AwaitsNetwork(t) => dbLock # Some(t)

\* ------------------------------------------- every handler running concurrently
\* the tables a report may find when an !addcharacter may run beside it: a
\* caller slot is left for its fetch
BotTables == {tbl \in TrackedTables : Cardinality(tbl) < NumCallers /\ \A r \in tbl : r.name = "Ann"}

InitBot ==
    /\ now = 0
    /\ ops = 0
    /\ battlenet_auth = TRUE
    /\ auth = BattleNetAuth_new
    /\ authLock = None
    /\ cpc = [c \in Callers |-> "idle"]
    /\ cret = [c \in Callers |-> NoRet]
    /\ cstart = [c \in Callers |-> NoStart]
    /\ InitStoreEmpty
    /\ InitIdle
    /\ tracked \in BotTables
    /\ llama_api_url = TRUE
    /\ config = init_config(EmptyConfig)

NextBot ==
    \/ \E t \in Tasks : Levelcheck(t, FALSE)
    \/ \E t \in Tasks : LevelcheckNames(t)
    \/ \E c \in Callers : TokenLocked(c)
    \/ \E c \in Callers : TokenSent(c)
    \/ \E c \in Callers : TokenParsed(c)
    \/ \E c \in Callers : FetchToken(c)
    \/ \E c \in Callers : FetchSent(c)
    \/ \E c \in Callers : FetchParsed(c)
    \/ \E t \in Tasks : LevelcheckGather(t)
    \/ \E t \in Tasks : LevelcheckPrompt(t)
    \/ \E t \in Tasks, i \in Callers : InsultSent(t, i)
    \/ \E t \in Tasks, i \in Callers : InsultParsed(t, i)
    \/ \E t \in Tasks : LevelcheckRender(t)
    \/ \E t \in Tasks : LevelcheckSaid(t)
    \/ \E t \in Tasks, name \in AddArgs : AddCharacter(t, name)
    \/ \E t \in Tasks : AddFetched(t)
    \/ \E t \in Tasks : AddStore(t)
    \/ \E t \in Tasks : AddSaid(t)
    \/ \E t \in Tasks, name \in RemoveArgs : RemoveCharacter(t, name)
    \/ \E t \in Tasks : RemoveRun(t)
    \/ \E t \in Tasks : RemoveSaid(t)
    \/ \E t \in Tasks : Clear(t, "c1", "u1")
    \/ \E t \in Tasks : ClearRun(t)
    \/ \E t \in Tasks : ClearSaid(t)

SpecBot == InitBot /\ [][NextBot]_vars

\* the fetch in caller slot c runs inside task t: the fetches of a report are
\* futures joined in its handler, the fetch of an !addcharacter is awaited in it
OwnsCall(t, c) ==
    \/ pc[t] = "fetching" /\ c \in 1..Len(rep[t].names)
    \/ pc[t] = "add_fetching" /\ c = AddSlot
HoldsAuth(t) == \E c \in Callers : OwnsCall(t, c) /\ authLock = Some(c)
WaitsAuth(t) == \E c \in Callers : OwnsCall(t, c) /\ cpc[c] = "lock"
HoldsDb(t) == dbLock = Some(t)
WaitsDb(t) ==
    pc[t] \in {"key_lock", "ask_lock", "reply_lock", "clear_lock", "names_lock", "prompt_lock",
               "add_lock", "remove_lock", "ctx_lock", "capset_lock", "capview_lock"}

\* C29: no task holds the credential-cache lock and the store lock together,
\* and no task waits for one of them while it holds the other; every call of
\* get_battlenet_token in flight belongs to a task, so the holder of the
\* credential-cache lock is always some task's fetch.
C29_LocksNeverNested ==
    /\ \A c \in Callers : cpc[c] # "idle" => \E t \in Tasks : OwnsCall(t, c)
    /\ IsSome(authLock) => cpc[Unwrap(authLock)] \in {"send", "json"}
    /\ \A t \in Tasks :
          /\ ~(HoldsAuth(t) /\ HoldsDb(t))
          /\ ~(HoldsAuth(t) /\ WaitsDb(t))
          /\ ~(HoldsDb(t) /\ WaitsAuth(t))

\* the fetch of one task holds the credential-cache lock during the exchange
\* while another task holds the store lock
C29_Witness ==
    \E t \in Tasks, u \in Tasks : t # u /\ HoldsAuth(t) /\ HoldsDb(u)

\* ------------------------------------------ turns and a report running concurrently
NextLlm ==
    \/ \E t \in Tasks : Levelcheck(t, FALSE)
    \/ \E t \in Tasks : LevelcheckNames(t)
    \/ \E c \in Callers : TokenLocked(c)
    \/ \E c \in Callers : TokenSent(c)
    \/ \E c \in Callers : TokenParsed(c)
    \/ \E c \in Callers : FetchToken(c)
    \/ \E c \in Callers : FetchSent(c)
    \/ \E c \in Callers : FetchParsed(c)
    \/ \E t \in Tasks : LevelcheckGather(t)
    \/ \E t \in Tasks : LevelcheckPrompt(t)
    \/ \E t \in Tasks, i \in Callers : InsultSent(t, i)
    \/ \E t \in Tasks, i \in Callers : InsultParsed(t, i)
    \/ \E t \in Tasks : LevelcheckRender(t)
    \/ \E t \in Tasks : LevelcheckSaid(t)
    \/ \E t \in Tasks : Mention(t, "c1", "u1", "a")
    \/ \E t \in Tasks : Mentioned(t)
    \/ \E t \in Tasks : MentionKey(t)
    \/ \E t \in Tasks : AskAssemble(t)
    \/ \E t \in Tasks : AskSent(t)
    \/ \E t \in Tasks : AskParsed(t)
    \/ \E t \in Tasks : AskStoreReply(t)
    \/ \E t \in Tasks : MentionSaid(t)

SpecLlm == InitBot /\ [][NextLlm]_vars

\* ask_llama returned the error of a response without a choice
NoChoice(t) == TurnFailed(t) /\ turn[t].res.err = "No response from model"
\* nothing was written under the turn's key after its user message
NothingAfter(t) == \A m \in messages : m.channel_id = turn[t].key => m.id <= turn[t].uid

\* C26: a response without a choice is an error in ask_llama and in
\* query_llm_oneshot: a success carries the content of a choice; the turn that
\* fails so goes on to send its error and stores no assistant message, so the
\* history of its key ends with its user message when nothing else was written
\* under the key since.
C26_NoChoiceIsAnError ==
    /\ [](\A t \in Tasks :
            /\ (turn[t].res.kind = "ok" \/ pc[t] = "reply_lock") => turn[t].res.reply \in Replies
            /\ \A i \in 1..Len(rep[t].insults) :
                  IsSome(rep[t].insults[i].text) => Unwrap(rep[t].insults[i].text) \in InsultTexts
            /\ (NoChoice(t) /\ NothingAfter(t)) =>
                  get_recent_messages(messages, turn[t].key, 1)
                      = <<[role |-> "user", content |-> ev[t].text]>>)
    /\ [][\A t \in Tasks :
            (pc[t] = "body" /\ pc'[t] # "body" /\ pc'[t] # "reply_lock") =>
                /\ pc'[t] = "say"
                /\ turn'[t].res.kind = "err"
                /\ messages' = messages]_vars
    /\ [][\A t \in Tasks :
            (NoChoice(t) /\ pc'[t] # "say") =>
                /\ pc'[t] = "idle"
                /\ messages' = messages]_vars

\* a turn failed for want of a choice beside a report whose one-shot call ended
\* without a text, and the key's newest row is the turn's user message
C26_Witness ==
    \E t \in Tasks, u \in Tasks :
        /\ NoChoice(t) /\ NothingAfter(t) /\ HasRow(UserRowOf(t))
        /\ pc[u] = "report_say"
        /\ \E i \in 1..Len(rep[u].insults) :
              rep[u].insults[i].st = "done" /\ rep[u].insults[i].text = None

\* --------------------------------------------- turns on one key: more claims
\* C27: under every interleaving of turns on one key, the prompt a turn sends
\* ends with that turn's own user text, with the directive on it: the user
\* message is stored and the history read under one hold of the store lock.
C27_PromptEndsWithOwnText ==
    \A t \in Tasks :
        Assembled(t) =>
            /\ turn[t].prompt # <<>>
            /\ LastOf(turn[t].prompt) =
                  [role |-> "user", content |-> ev[t].text,
                   directive |-> Some(response_cap(config))]

\* two turns on one key are both past their read: each prompt ends with its own
\* text, and the later one holds the earlier one's text before it
C27_Witness ==
    \E t \in Tasks, u \in Tasks :
        /\ t # u
        /\ pc[t] = "post" /\ pc[u] = "post"
        /\ turn[t].key = turn[u].key
        /\ ev[t].text # ev[u].text
        /\ turn[t].uid < turn[u].uid
        /\ LET p == turn[u].prompt
           IN  Len(p) >= 2 /\ p[Len(p) - 1].content = ev[t].text

\* the rows of a key with a role
RowsOf(k, role) == {m \in messages : m.channel_id = k /\ m.role = role}

\* C28 as stated: in every state, also with !clear running beside a turn, every
\* stored assistant message has a user message before it under its key, so no
\* key holds more assistant messages than user messages.
C28_AssistantAfterUser ==
    \A k \in Keys :
        /\ \A q \in RowsOf(k, "assistant") : \E r \in RowsOf(k, "user") : r.id < q.id
        /\ Cardinality(RowsOf(k, "assistant")) <= Cardinality(RowsOf(k, "user"))

\* C28, what the code does: an assistant message is inserted only by a turn
\* that inserted its user message under the same key before; at that insert the
\* user message is still in the key's log, before the reply, unless the key
\* was cleared between the turn's two writes.
C28_ReplyFollowsOwnUserMessage ==
    [][\A q \in messages' \ messages :
          q.role = "assistant" =>
              \E t \in Tasks :
                  /\ pc[t] = "reply_lock" /\ pc'[t] = "say"
                  /\ q.channel_id = turn[t].key
                  /\ q.content = turn[t].res.reply
                  /\ turn[t].uid # 0 /\ turn[t].uid < q.id
                  /\ LastOf(log'[q.channel_id]) = [role |-> "assistant", content |-> q.content]
                  /\ ~turn[t].wiped =>
                        /\ HasRow(UserRowOf(t))
                        /\ \E i \in 1..(Len(log'[q.channel_id]) - 1) :
                              log'[q.channel_id][i] = [role |-> "user", content |-> ev[t].text]]_vars

\* a reply was stored after a !clear wiped its turn's user message: the key
\* holds the assistant message alone
C28_Witness ==
    \E t \in Tasks :
        /\ pc[t] = "say" /\ turn[t].res.kind = "ok" /\ turn[t].wiped
        /\ ~HasRow(UserRowOf(t))
        /\ RowsOf(turn[t].key, "user") = {}
        /\ \E q \in RowsOf(turn[t].key, "assistant") : q.id > turn[t].uid

\* ---------------------------------------------------------------- termination
\* a report, an !addcharacter, turns and !clear running concurrently
NextLive ==
    \/ NextLlm
    \/ \E t \in Tasks, name \in AddArgs : AddCharacter(t, name)
    \/ \E t \in Tasks : AddFetched(t)
    \/ \E t \in Tasks : AddStore(t)
    \/ \E t \in Tasks : AddSaid(t)
    \/ \E t \in Tasks : Clear(t, "c1", "u1")
    \/ \E t \in Tasks : ClearRun(t)
    \/ \E t \in Tasks : ClearSaid(t)

\* the steps of a task that end an await on the network or on joined futures:
\* every outbound HTTP call returns
TaskReturns(t) ==
    \/ Mentioned(t) \/ AskSent(t) \/ AskParsed(t) \/ MentionSaid(t)
    \/ ClearSaid(t)
    \/ LevelcheckGather(t) \/ LevelcheckRender(t) \/ LevelcheckSaid(t)
    \/ \E i \in Callers : InsultSent(t, i) \/ InsultParsed(t, i)
    \/ AddFetched(t) \/ AddSaid(t)
\* the steps of a task that are granted the store lock
TaskLocks(t) ==
    \/ MentionKey(t) \/ AskAssemble(t) \/ AskStoreReply(t)
    \/ ClearRun(t)
    \/ LevelcheckNames(t) \/ LevelcheckPrompt(t)
    \/ AddStore(t)
\* the steps of a fetch that end an await on the network
CallReturns(c) ==
    TokenSent(c) \/ TokenParsed(c) \/ FetchToken(c) \/ FetchSent(c) \/ FetchParsed(c)

\* every HTTP call returns (weak fairness of the steps that end an await) and
\* the two mutexes are fair (strong fairness of the steps that are granted one)
Fairness ==
    /\ \A t \in Tasks : WF_vars(TaskReturns(t)) /\ SF_vars(TaskLocks(t))
    /\ \A c \in Callers : WF_vars(CallReturns(c)) /\ SF_vars(TokenLocked(c))

SpecLive == InitBot /\ [][NextLive]_vars /\ Fairness

\* C24: with every HTTP call returning and fair mutexes, every call of
\* get_battlenet_token, of fetch_wow_character and of ask_llama returns and
\* every report (and every other handler) ends, under every interleaving.
C24_EveryCallCompletes ==
    /\ \A c \in Callers : (cpc[c] \in {"lock", "send", "json"}) ~> (cpc[c] = "done")
    /\ \A c \in Callers : (cpc[c] # "idle") ~> (cpc[c] = "fetched")
    /\ \A t \in Tasks : (pc[t] \in {"ask_lock", "post", "body", "reply_lock"}) ~> (pc[t] = "say")
    /\ \A t \in Tasks : (pc[t] # "idle") ~> (pc[t] = "idle")

\* a report waits for the store lock while another handler holds it across its
\* send
C24_Witness ==
    \E t \in Tasks, u \in Tasks :
        /\ dbLock = Some(u) /\ pc[u] \in {"clear_say", "add_saved_say"}
        /\ pc[t] \in {"names_lock", "prompt_lock"}
====
